---- MODULE Spec2Model ----
(***************************************************************************)
(* Model of ExcelAutomationChecker (src/excel_automation_checker.py): the  *)
(* multi-stage heuristic scoring pipeline run by                           *)
(* generate_comprehensive_report over one loaded workbook.                 *)
(*                                                                         *)
(* Numbers: file sizes are kept in hundredths of a MB (round(x, 2)), the   *)
(* overall score in hundredths of a point before rounding and in tenths    *)
(* after round(x, 1); ratios are compared by cross-multiplication.         *)
(* Python dicts are functions on their key set; d.get(k, v) is Get.        *)
(***************************************************************************)
EXTENDS Integers, Sequences, FiniteSets, TLC

(***************************************************************************)
(* Bounds of the model.                                                    *)
(***************************************************************************)
\* Largest number of sheets in a generated workbook.
MaxSheets == 4
\* Number of times generate_comprehensive_report is run on the instance.
MaxRuns == 2

(***************************************************************************)
(* Text helpers (Python str operations).                                   *)
(***************************************************************************)
Min2(a, b) == IF a <= b THEN a ELSE b
Max2(a, b) == IF a >= b THEN a ELSE b

CharAt(s, i) == SubSeq(s, i, i)

\* Python `k in s` for strings.
Contains(k, s) ==
    \E i \in 1..(Len(s) - Len(k) + 1) : SubSeq(s, i, i + Len(k) - 1) = k

\* 1-based index of the first occurrence of k in s, 0 when absent.
FindFirst(k, s) ==
    IF Contains(k, s)
    THEN CHOOSE i \in 1..(Len(s) - Len(k) + 1) :
            /\ SubSeq(s, i, i + Len(k) - 1) = k
            /\ \A j \in 1..(i - 1) : SubSeq(s, j, j + Len(k) - 1) # k
    ELSE 0

\* The case mappings of the ASCII letters.
LowerOf ==
    [A |-> "a", B |-> "b", C |-> "c", D |-> "d", E |-> "e", F |-> "f",
     G |-> "g", H |-> "h", I |-> "i", J |-> "j", K |-> "k", L |-> "l",
     M |-> "m", N |-> "n", O |-> "o", P |-> "p", Q |-> "q", R |-> "r",
     S |-> "s", T |-> "t", U |-> "u", V |-> "v", W |-> "w", X |-> "x",
     Y |-> "y", Z |-> "z"]
UpperOf ==
    [a |-> "A", b |-> "B", c |-> "C", d |-> "D", e |-> "E", f |-> "F",
     g |-> "G", h |-> "H", i |-> "I", j |-> "J", k |-> "K", l |-> "L",
     m |-> "M", n |-> "N", o |-> "O", p |-> "P", q |-> "Q", r |-> "R",
     s |-> "S", t |-> "T", u |-> "U", v |-> "V", w |-> "W", x |-> "X",
     y |-> "Y", z |-> "Z"]

LowerChar(c) == IF c \in DOMAIN LowerOf THEN LowerOf[c] ELSE c
UpperChar(c) == IF c \in DOMAIN UpperOf THEN UpperOf[c] ELSE c

RECURSIVE LowerFrom(_, _, _)
\* the characters lo..hi of s in lower case (halving keeps the recursion shallow)
LowerFrom(s, lo, hi) ==
    IF lo > hi THEN ""
    ELSE IF lo = hi THEN LowerChar(CharAt(s, lo))
    ELSE LowerFrom(s, lo, (lo + hi) \div 2) \o LowerFrom(s, (lo + hi) \div 2 + 1, hi)
\* str.lower()
Lower(s) == LowerFrom(s, 1, Len(s))

RECURSIVE UpperFrom(_, _, _)
\* the characters lo..hi of s in upper case (halving keeps the recursion shallow)
UpperFrom(s, lo, hi) ==
    IF lo > hi THEN ""
    ELSE IF lo = hi THEN UpperChar(CharAt(s, lo))
    ELSE UpperFrom(s, lo, (lo + hi) \div 2) \o UpperFrom(s, (lo + hi) \div 2 + 1, hi)
\* str.upper()
Upper(s) == UpperFrom(s, 1, Len(s))

IsDigit(c) == c \in {"0", "1", "2", "3", "4", "5", "6", "7", "8", "9"}
IsSpace(c) == c = " "

RECURSIVE Strip(_)
\* str.strip()
Strip(s) ==
    IF Len(s) = 0 THEN ""
    ELSE IF IsSpace(CharAt(s, 1)) THEN Strip(SubSeq(s, 2, Len(s)))
    ELSE IF IsSpace(CharAt(s, Len(s))) THEN Strip(SubSeq(s, 1, Len(s) - 1))
    ELSE s

\* s[:n]
Truncate(s, n) == SubSeq(s, 1, Min2(Len(s), n))

\* Python d.get(k, default)
Get(d, k, default) == IF k \in DOMAIN d THEN d[k] ELSE default

\* any(k in s for k in keywords), keywords a sequence of strings
AnyIn(keywords, s) == \E i \in 1..Len(keywords) : Contains(keywords[i], s)

RECURSIVE SumSeq(_)
SumSeq(q) == IF Len(q) = 0 THEN 0 ELSE Head(q) + SumSeq(Tail(q))

RECURSIVE SelectIdx(_, _, _)
\* the members of q whose index satisfies keep, in order
SelectIdx(q, keep, i) ==
    IF i > Len(q) THEN <<>>
    ELSE (IF keep[i] THEN <<q[i]>> ELSE <<>>) \o SelectIdx(q, keep, i + 1)

\* round-half-even of num/den for num >= 0, den > 0 (Python round on an exact value)
RoundDiv(num, den) ==
    LET q == num \div den
        r == num % den
    IN  IF 2 * r < den THEN q
        ELSE IF 2 * r > den THEN q + 1
        ELSE IF q % 2 = 0 THEN q ELSE q + 1

(***************************************************************************)
(* The workbook (the openpyxl object the checker holds after a load).      *)
(* A sheet body lists the cells of a sheet by kind: `values' non-empty     *)
(* cells that are no formulas, and `formulas', runs of <<text, n>> for n   *)
(* cells holding the same formula text; `headers' counts the non-empty     *)
(* cells of row 1.  `dv_attr' tells whether the cell objects expose a      *)
(* data_validation attribute (openpyxl cells do not).                      *)
(***************************************************************************)
Body(rows, cols, values, formulas, merged, headers, prot, tables) ==
    [max_row |-> rows, max_column |-> cols, values |-> values, formulas |-> formulas,
     merged |-> merged, headers |-> headers, protection |-> prot, tables |-> tables,
     dv_attr |-> FALSE]

Run(text, n) == [text |-> text, n |-> n]

PlainBody == Body(10, 5, 50, <<>>, 0, 5, FALSE, FALSE)

\* A formula of more than 100 characters whose VLOOKUP starts at character 109.
LongFormula ==
    "=IF(A1>0,SUM(B1:B9)+SUM(C1:C9)+SUM(D1:D9)+SUM(E1:E9)+SUM(F1:F9)+SUM(G1:G9)"
    \o "+SUM(H1:H9)+SUM(I1:I9)+SUM(J1:J9),VLOOKUP(A1,K:L,2,0))"

\* Sheet contents given to the first sheet of a generated workbook.
Bodies ==
    { Body(1, 1, 0, <<>>, 0, 0, FALSE, FALSE),
      PlainBody,
      Body(100, 26, 1, <<>>, 0, 0, FALSE, FALSE),
      Body(20, 10, 10, << Run("=INDIRECT(A1)", 190) >>, 0, 5, FALSE, FALSE),
      Body(40, 10, 280, << Run("=sum(A1:A9)", 60), Run("=SUMIF(A:A,1,B:B)", 30),
                           Run("=A1*B1", 20), Run("=VLOOKUP(A1,B:C,2,0)+SUM(D:D)", 10) >>,
           12, 10, FALSE, TRUE),
      Body(300, 10, 100, << Run("=IF(A1>0,A1,0)", 900), Run("=OFFSET(A1,1,1)", 320) >>,
           60, 0, TRUE, FALSE),
      Body(20, 10, 10, << Run(LongFormula, 40) >>, 0, 5, FALSE, FALSE),
      Body(100, 10, 100, << Run("=SUM(A1:A9)", 600) >>, 0, 10, FALSE, FALSE) }

\* Workbook-level facts: named ranges, file size in bytes, file extension,
\* VBA archive, and how many trailing sheets are hidden / very hidden.
Profile(names, bytes, ext, vba, hidden, veryHidden) ==
    [defined_names |-> names, size_bytes |-> bytes, ext |-> ext, vba_archive |-> vba,
     hidden |-> hidden, very_hidden |-> veryHidden]

Profiles ==
    { Profile(0, 1024, ".xlsx", FALSE, 0, 0),
      Profile(5, 7340032, ".xlsx", FALSE, 1, 0),
      Profile(11, 62914560, ".xlsm", FALSE, 0, 1),
      Profile(0, 125829120, ".xlsx", TRUE, 1, 1) }

NamePool ==
    << "Jan_Input", "Feb_Input", "Q1_Report", "Summary",
       "Data_2024", "Data_2025", "Calc", "Template", "Sheet1" >>

\* Sheet-name lists: the sub-lists of NamePool (in pool order) of 1..MaxSheets names.
NameLists ==
    { SelectIdx(NamePool, [i \in 1..Len(NamePool) |-> i \in S], 1) :
        S \in { T \in SUBSET (1..Len(NamePool)) :
                  Cardinality(T) >= 1 /\ Cardinality(T) <= MaxSheets } }

\* Places where an exception can be injected.  A ".raise" fault makes the
\* stage's method raise into generate_comprehensive_report; "score", "tier",
\* "detail" and "assessment" strike inside generate_comprehensive_report; the
\* others are caught inside the stage's own method.
RaiseFaults ==
    { "structure.raise", "formulas.raise", "patterns.raise", "red_flags.raise",
      "opportunities.raise", "score", "recommend.raise" }

CriticalFaults ==
    { "structure.critical", "formulas.critical", "patterns.critical",
      "red_flags.critical", "opportunities.critical", "recommend.critical" }

InnerFaults ==
    { "structure.named_ranges", "structure.scoring", "formulas.classify",
      "formulas.difficulty", "red_flags.macro", "red_flags.consistency",
      "tier", "detail", "assessment" }

FaultSets ==
    (SUBSET RaiseFaults) \cup (SUBSET CriticalFaults)
    \cup { {f} : f \in InnerFaults }
    \cup { RaiseFaults \cup CriticalFaults \cup InnerFaults }

\* sheet_state of sheet i of n: the last very_hidden sheets are veryHidden,
\* the hidden ones before them hidden, but sheet 1 always stays visible.
SheetState(p, i, n) ==
    IF i > 1 /\ i > n - p.very_hidden THEN "veryHidden"
    ELSE IF i > 1 /\ i > n - p.very_hidden - p.hidden THEN "hidden"
    ELSE "visible"

MakeWorkbook(names, body, p, faults) ==
    [ sheetnames    |-> names,
      sheet_state   |-> [i \in 1..Len(names) |-> SheetState(p, i, Len(names))],
      bodies        |-> [i \in 1..Len(names) |-> IF i = 1 THEN body ELSE PlainBody],
      defined_names |-> p.defined_names,
      size_bytes    |-> p.size_bytes,
      file_path     |-> "book" \o p.ext,
      vba_archive   |-> p.vba_archive,
      faults        |-> faults ]

(***************************************************************************)
(* Configuration set in __init__.                                          *)
(***************************************************************************)
max_sheets_to_analyze == 50

\* str(e) of an injected exception
Exc == "injected fault"

BytesPerMB == 1048576

\* round(os.path.getsize(path) / (1024 * 1024), 2), in hundredths of a MB
FileSizeCentiMB(bytes) ==
    (bytes \div BytesPerMB) * 100 + RoundDiv((bytes % BytesPerMB) * 100, BytesPerMB)

(***************************************************************************)
(* analyze_file_structure                                                  *)
(***************************************************************************)
CountState(w, st) == Cardinality({i \in DOMAIN w.sheet_state : w.sheet_state[i] = st})

\* Variant of StructureScore that grants the named-range bonus to a workbook
\* without named ranges.
StructureScoreFreeBonus(total_sheets, named_ranges, has_hidden, has_very_hidden, size_centi) ==
    LET sheets == IF 1 <= total_sheets /\ total_sheets <= 10 THEN 15
                  ELSE IF 11 <= total_sheets /\ total_sheets <= 20 THEN 5
                  ELSE IF total_sheets > 30 THEN -20
                  ELSE 0
        names  == IF named_ranges <= 10 THEN 15 ELSE 5
        hid    == (IF has_hidden THEN -5 ELSE 0) + (IF has_very_hidden THEN -10 ELSE 0)
        size   == IF size_centi < 500 THEN 5
                  ELSE IF size_centi > 5000 THEN -15
                  ELSE 0
    IN  Max2(0, Min2(100, 70 + sheets + names + hid + size))

\* Variant of StructureScore that applies the large-workbook penalty from 21
\* sheets on instead of from 31.
StructureScorePenaltyFrom21(total_sheets, named_ranges, has_hidden, has_very_hidden, size_centi) ==
    LET sheets == IF 1 <= total_sheets /\ total_sheets <= 10 THEN 15
                  ELSE IF 11 <= total_sheets /\ total_sheets <= 20 THEN 5
                  ELSE IF total_sheets > 20 THEN -20
                  ELSE 0
        names  == IF named_ranges > 0
                  THEN (IF named_ranges <= 10 THEN 15 ELSE 5)
                  ELSE 0
        hid    == (IF has_hidden THEN -5 ELSE 0) + (IF has_very_hidden THEN -10 ELSE 0)
        size   == IF size_centi < 500 THEN 5
                  ELSE IF size_centi > 5000 THEN -15
                  ELSE 0
    IN  Max2(0, Min2(100, 70 + sheets + names + hid + size))

\* The scoring block of analyze_file_structure (lines 270-305).
StructureScore(total_sheets, named_ranges, has_hidden, has_very_hidden, size_centi) ==
    LET sheets == IF 1 <= total_sheets /\ total_sheets <= 10 THEN 15
                  ELSE IF 11 <= total_sheets /\ total_sheets <= 20 THEN 5
                  ELSE IF total_sheets > 30 THEN -20
                  ELSE 0
        names  == IF named_ranges > 0
                  THEN (IF named_ranges <= 10 THEN 15 ELSE 5)
                  ELSE 0
        hid    == (IF has_hidden THEN -5 ELSE 0) + (IF has_very_hidden THEN -10 ELSE 0)
        size   == IF size_centi < 500 THEN 5
                  ELSE IF size_centi > 5000 THEN -15
                  ELSE 0
        score  == 70 + sheets + names + hid + size
    IN  Max2(0, Min2(100, score))

\* Faults struck inside the outer try of analyze_file_structure but outside
\* its inner handlers: a generic one, line 235 (sheet names) and line 240
\* (os.path.getsize).
StructureOuterFaults == { "structure.critical", "structure.sheet_names", "structure.file_size" }

\* The value analyze_file_structure returns.  Faults caught by the inner
\* handlers: "structure.named_ranges", "structure.visibility" (raised before
\* the first sheet is looked at), "structure.scoring".
analyze_file_structure(w) ==
    IF w.faults \cap StructureOuterFaults # {}
    THEN [ total_sheets    |-> 0,
           structure_score |-> 0,
           analysis_errors |-> << "Critical structure analysis error: " \o Exc >> ]
    ELSE
    LET total   == Len(w.sheetnames)
        nrFail  == "structure.named_ranges" \in w.faults
        visFail == "structure.visibility" \in w.faults
        named   == IF nrFail THEN 0 ELSE w.defined_names
        hidden  == IF visFail THEN 0 ELSE CountState(w, "hidden")
        vhidden == IF visFail THEN 0 ELSE CountState(w, "veryHidden")
        visible == IF visFail THEN 0 ELSE CountState(w, "visible")
        size    == FileSizeCentiMB(w.size_bytes)
        scFail  == "structure.scoring" \in w.faults
        errs    == (IF nrFail THEN << "Named ranges analysis failed: " \o Exc >> ELSE <<>>)
                   \o (IF visFail THEN << "Sheet visibility analysis failed: " \o Exc >> ELSE <<>>)
                   \o (IF scFail THEN << "Scoring calculation failed: " \o Exc >> ELSE <<>>)
    IN  [ total_sheets           |-> total,
          sheet_names            |-> w.sheetnames,
          named_ranges           |-> named,
          has_hidden_sheets      |-> hidden > 0,
          has_very_hidden_sheets |-> vhidden > 0,
          file_size_mb           |-> size,
          structure_score        |-> IF scFail THEN Max2(0, Min2(100, 50))
                                     ELSE StructureScore(total, named, hidden > 0,
                                                         vhidden > 0, size),
          sheet_types            |-> [ visible     |-> visible,
                                       hidden      |-> hidden,
                                       very_hidden |-> vhidden ],
          analysis_errors        |-> errs ]

(***************************************************************************)
(* _calculate_consistency_score and analyze_sheet_data                     *)
(***************************************************************************)
\* _calculate_consistency_score (lines 1088-1133); ratios by cross-multiplication.
\* Variant of CalculateConsistencyScore whose merged-cell bands include their
\* lower edges (ratio >= 0.2 costs 30, ratio >= 0.1 costs 15).
ConsistencyScoreClosedBands(sa) ==
    LET used     == Max2(1, Get(sa, "used_cells", 1))
        merged   == Get(sa, "merged_cells", 0)
        total    == Max2(1, Get(sa, "total_cells", 1))
        fcells   == Get(sa, "formula_cells", 0)
        bonus    == (IF Get(sa, "has_tables", FALSE) THEN 20 ELSE 0)
                    + (IF Get(sa, "has_data_validation", FALSE) THEN 15 ELSE 0)
                    + (IF Get(sa, "headers_detected", 0) > 0 THEN 10 ELSE 0)
        mergePen == IF merged > 0
                    THEN (IF 10 * merged >= 2 * used THEN 30
                          ELSE IF 10 * merged >= used THEN 15
                          ELSE 5)
                    ELSE 0
        densPen  == IF used > 0 /\ total > 100
                    THEN (IF 100 * used < 5 * total THEN 20
                          ELSE IF 10 * used < total THEN 10
                          ELSE 0)
                    ELSE 0
        formTerm == IF used > 10
                    THEN (IF 10 * fcells > 8 * used THEN -10
                          ELSE IF 10 * fcells >= used /\ 2 * fcells <= used THEN 5
                          ELSE 0)
                    ELSE 0
    IN  Max2(0, Min2(100, 70 + bonus - mergePen - densPen + formTerm))

\* _calculate_consistency_score (lines 1078-1137); ratios are compared by
\* cross-multiplication.
CalculateConsistencyScore(sa) ==
    LET used     == Max2(1, Get(sa, "used_cells", 1))
        merged   == Get(sa, "merged_cells", 0)
        total    == Max2(1, Get(sa, "total_cells", 1))
        fcells   == Get(sa, "formula_cells", 0)
        bonus    == (IF Get(sa, "has_tables", FALSE) THEN 20 ELSE 0)
                    + (IF Get(sa, "has_data_validation", FALSE) THEN 15 ELSE 0)
                    + (IF Get(sa, "headers_detected", 0) > 0 THEN 10 ELSE 0)
        mergePen == IF merged > 0
                    THEN (IF 10 * merged > 2 * used THEN 30
                          ELSE IF 10 * merged > used THEN 15
                          ELSE 5)
                    ELSE 0
        densPen  == IF used > 0 /\ total > 100
                    THEN (IF 100 * used < 5 * total THEN 20
                          ELSE IF 10 * used < total THEN 10
                          ELSE 0)
                    ELSE 0
        formTerm == IF used > 10
                    THEN (IF 10 * fcells > 8 * used THEN -10
                          ELSE IF 10 * fcells >= used /\ 2 * fcells <= used THEN 5
                          ELSE 0)
                    ELSE 0
    IN  Max2(0, Min2(100, 70 + bonus - mergePen - densPen + formTerm))

\* The function tags of analyze_sheet_data (line 408), in priority order.
FunctionTags ==
    << "SUM", "AVERAGE", "COUNT", "IF", "VLOOKUP", "INDEX", "MATCH", "INDIRECT", "OFFSET" >>

\* The tag a formula text gets: the first of FunctionTags it contains, "" if none.
FormulaTag(text) ==
    LET up == Upper(text)
    IN  IF AnyIn(FunctionTags, up)
        THEN FunctionTags[CHOOSE i \in 1..Len(FunctionTags) :
                            /\ Contains(FunctionTags[i], up)
                            /\ \A j \in 1..(i - 1) : ~Contains(FunctionTags[j], up)]
        ELSE ""

\* formula_types of one sheet: tag -> number of formula cells carrying it
SheetFormulaTypes(runs) ==
    LET tags == {FormulaTag(runs[i].text) : i \in 1..Len(runs)} \ {""}
    IN  [t \in tags |->
            SumSeq([i \in 1..Len(runs) |->
                      IF FormulaTag(runs[i].text) = t THEN runs[i].n ELSE 0])]

\* analyze_sheet_data(sheet_name) for sheet i of workbook w (lines 332-456).
\* Generated sheets have at most max_rows_to_analyze (10000) rows, so every row is scanned.
\* headers_detected holds the length of the header list (at most 20 are kept).
analyze_sheet_data(w, i) ==
    LET b        == w.bodies[i]
        fcount   == SumSeq([k \in 1..Len(b.formulas) |-> b.formulas[k].n])
        used     == b.values + fcount
        dvcount  == IF b.dv_attr THEN used ELSE fcount
        base     == [ sheet_name          |-> w.sheetnames[i],
                      dimensions          |-> << b.max_row, b.max_column >>,
                      total_cells         |-> b.max_row * b.max_column,
                      used_cells          |-> used,
                      formula_cells       |-> fcount,
                      merged_cells        |-> b.merged,
                      has_tables          |-> b.tables,
                      has_data_validation |-> dvcount > 0,
                      formulas            |-> [k \in 1..Len(b.formulas) |->
                                                 Run(Truncate(b.formulas[k].text, 100),
                                                     b.formulas[k].n)],
                      formula_types       |-> SheetFormulaTypes(b.formulas),
                      headers_detected    |-> IF b.max_row > 0 THEN Min2(b.headers, 20) ELSE 0,
                      analysis_errors     |-> <<>>,
                      sheet_protection    |-> b.protection ]
    IN  [k \in DOMAIN base \cup {"data_consistency_score"} |->
            IF k = "data_consistency_score" THEN CalculateConsistencyScore(base)
            ELSE base[k]]

(***************************************************************************)
(* analyze_formulas                                                        *)
(***************************************************************************)
complex_formula_patterns ==
    << "INDIRECT", "OFFSET", "INDEX", "MATCH", "VLOOKUP", "HLOOKUP", "XLOOKUP",
       "SUMPRODUCT", "ARRAY", "MMULT", "TRANSPOSE", "PIVOT", "GETPIVOTDATA", "CUBE",
       "HYPERLINK" >>

simple_formula_patterns ==
    << "SUM", "AVERAGE", "COUNT", "MAX", "MIN", "IF", "CONCATENATE", "CONCAT", "LEFT",
       "RIGHT", "MID", "LEN", "UPPER", "LOWER", "ROUND", "ABS", "SQRT" >>

moderate_formula_patterns ==
    << "SUMIF", "COUNTIF", "AVERAGEIF", "SUMIFS", "COUNTIFS", "AVERAGEIFS", "IFERROR",
       "IFNA", "CHOOSE", "SWITCH", "IFS" >>

\* Variant of ClassifyFormula whose final else branch appends to the simple list.
ClassifyFormulaDefaultSimple(formula) ==
    IF AnyIn(complex_formula_patterns, Upper(formula)) THEN "complex" ELSE "simple"

\* The list one formula is appended to (lines 528-547): "complex" or "simple".
ClassifyFormula(formula) ==
    LET formula_upper == Upper(formula)
    IN  IF AnyIn(complex_formula_patterns, formula_upper) THEN "complex"
        ELSE IF AnyIn(moderate_formula_patterns, formula_upper) THEN "simple"
        ELSE IF AnyIn(simple_formula_patterns, formula_upper) THEN "simple"
        ELSE "complex"

RECURSIVE ConcatAll(_)
ConcatAll(qs) == IF Len(qs) = 0 THEN <<>> ELSE Head(qs) \o ConcatAll(Tail(qs))

\* The try/except around one classification (lines 528-547): a failure counts as complex.
Categorize(formula, fails) == IF fails THEN "complex" ELSE ClassifyFormula(formula)

\* number of formulas of the runs that land in list `kind'
CountKind(runs, kind, fails) ==
    SumSeq([k \in 1..Len(runs) |->
              IF Categorize(runs[k].text, fails) = kind THEN runs[k].n ELSE 0])

RECURSIVE TakeFirst(_, _)
\* the first n formula texts of the runs (list[:n])
TakeFirst(runs, n) ==
    IF n <= 0 \/ Len(runs) = 0 THEN <<>>
    ELSE LET k == Min2(n, Head(runs).n)
         IN  [j \in 1..k |-> Head(runs).text] \o TakeFirst(Tail(runs), n - k)

\* Variant of DifficultyScore whose ratio bands include their lower edges.
DifficultyScoreClosedBands(total_formulas, complex_count) ==
    LET den  == Max2(1, total_formulas)
        base == IF total_formulas = 0 THEN 20
                ELSE IF 10 * complex_count >= 6 * den THEN 85
                ELSE IF 10 * complex_count >= 4 * den THEN 70
                ELSE IF 10 * complex_count >= 2 * den THEN 50
                ELSE 25
        adj  == IF total_formulas > 1000 THEN 10
                ELSE IF total_formulas > 100 THEN 5
                ELSE 0
    IN  Min2(100, base + adj)

\* The difficulty block of analyze_formulas (lines 568-587).
DifficultyScore(total_formulas, complex_count) ==
    LET den  == Max2(1, total_formulas)
        base == IF total_formulas = 0 THEN 20
                ELSE IF 10 * complex_count > 6 * den THEN 85
                ELSE IF 10 * complex_count > 4 * den THEN 70
                ELSE IF 10 * complex_count > 2 * den THEN 50
                ELSE 25
        adj  == IF total_formulas > 1000 THEN 10
                ELSE IF total_formulas > 100 THEN 5
                ELSE 0
    IN  Min2(100, base + adj)

\* merge of the per-sheet formula_types dicts (lines 516-518)
MergeTypes(analyses) ==
    LET tags == UNION {DOMAIN analyses[i].formula_types : i \in 1..Len(analyses)}
    IN  [t \in tags |->
            SumSeq([i \in 1..Len(analyses) |-> Get(analyses[i].formula_types, t, 0)])]

\* The value analyze_formulas returns.  formula_complexity_ratio is the
\* fraction <<complex_count, max(1, total_formulas)>>.
\* Faults: "formulas.critical", "formulas.classify", "formulas.difficulty".
analyze_formulas(w) ==
    IF "formulas.critical" \in w.faults
    THEN [ total_formulas              |-> 0,
           automation_difficulty_score |-> 100,
           analysis_errors             |-> << "Critical formula analysis error: " \o Exc >> ]
    ELSE
    LET sheets_analyzed == Min2(Len(w.sheetnames), max_sheets_to_analyze)
        analyses        == [i \in 1..sheets_analyzed |-> analyze_sheet_data(w, i)]
        all_formulas    == ConcatAll([i \in 1..sheets_analyzed |-> analyses[i].formulas])
        total_formulas  == SumSeq([k \in 1..Len(all_formulas) |-> all_formulas[k].n])
        cFail           == "formulas.classify" \in w.faults
        complex_count   == CountKind(all_formulas, "complex", cFail)
        simple_count    == CountKind(all_formulas, "simple", cFail)
        complex_runs    == SelectIdx(all_formulas,
                              [k \in 1..Len(all_formulas) |->
                                 Categorize(all_formulas[k].text, cFail) = "complex"], 1)
        dFail           == "formulas.difficulty" \in w.faults
    IN  [ total_formulas              |-> total_formulas,
          complex_formulas            |-> complex_count,
          simple_formulas             |-> simple_count,
          formula_complexity_ratio    |-> << complex_count, Max2(1, total_formulas) >>,
          formula_types_summary       |-> MergeTypes(analyses),
          most_complex_formulas       |-> TakeFirst(complex_runs, 5),
          automation_difficulty_score |-> IF dFail THEN 50
                                          ELSE DifficultyScore(total_formulas, complex_count),
          sheets_analyzed             |-> sheets_analyzed,
          analysis_errors             |-> IF dFail
                                          THEN << "Difficulty scoring failed: " \o Exc >>
                                          ELSE <<>> ]

(***************************************************************************)
(* detect_automation_patterns                                              *)
(***************************************************************************)
MonthAbbrevs ==
    << "jan", "feb", "mar", "apr", "may", "jun", "jul", "aug", "sep", "oct", "nov", "dec" >>

\* time_patterns (lines 636-644), the four lists in dict order
time_patterns ==
    MonthAbbrevs \o
    << "january", "february", "march", "april", "june", "july", "august", "september",
       "october", "november", "december" >> \o
    << "q1", "q2", "q3", "q4", "quarter" >> \o
    << "2020", "2021", "2022", "2023", "2024", "2025", "2026" >> \o
    << "week", "daily", "monthly", "annual", "yearly" >>

IsTimeBased(name) == AnyIn(time_patterns, Lower(name))

RECURSIVE SkipDigits(_, _)
\* index after the run of digits of s that starts at i
SkipDigits(s, i) ==
    IF i <= Len(s) /\ IsDigit(CharAt(s, i)) THEN SkipDigits(s, i + 1) ELSE i

RECURSIVE SkipSpaces(_, _)
SkipSpaces(s, i) ==
    IF i <= Len(s) /\ IsSpace(CharAt(s, i)) THEN SkipSpaces(s, i + 1) ELSE i

RECURSIVE StripNumbers(_, _)
\* re.sub(r'[0-9]+|_\d+|\s+\d+', '', s), scanning from index i
StripNumbers(s, i) ==
    IF i > Len(s) THEN ""
    ELSE LET c == CharAt(s, i)
             j == SkipSpaces(s, i)
         IN  IF IsDigit(c) THEN StripNumbers(s, SkipDigits(s, i))
             ELSE IF c = "_" /\ i < Len(s) /\ IsDigit(CharAt(s, i + 1))
                  THEN StripNumbers(s, SkipDigits(s, i + 1))
             ELSE IF IsSpace(c) /\ j <= Len(s) /\ IsDigit(CharAt(s, j))
                  THEN StripNumbers(s, SkipDigits(s, j))
             ELSE c \o StripNumbers(s, i + 1)

\* re.sub(r'(jan|feb|...|dec).*', '', s): cut s at the first month abbreviation
CutAtMonth(s) ==
    LET hits == {FindFirst(MonthAbbrevs[k], s) : k \in 1..Len(MonthAbbrevs)} \ {0}
    IN  IF hits = {} THEN s
        ELSE SubSeq(s, 1, (CHOOSE h \in hits : \A g \in hits : h <= g) - 1)

\* base_name of a sheet name (lines 667-668)
BaseName(name) == Strip(CutAtMonth(Lower(Strip(StripNumbers(name, 1)))))

\* Variant of HasRepeatedPatterns that also groups base names shorter than
\* two characters.
HasRepeatedPatternsAnyBase(sheet_names) ==
    /\ Len(sheet_names) >= 3
    /\ \E i, j \in 1..Len(sheet_names) :
          /\ i < j
          /\ BaseName(sheet_names[i]) = BaseName(sheet_names[j])

\* repeated structure detection (lines 662-680): some base name of >= 2
\* characters is shared by >= 2 sheets, and there are >= 3 sheets
HasRepeatedPatterns(sheet_names) ==
    /\ Len(sheet_names) >= 3
    /\ \E i, j \in 1..Len(sheet_names) :
          /\ i < j
          /\ Len(BaseName(sheet_names[i])) >= 2
          /\ BaseName(sheet_names[i]) = BaseName(sheet_names[j])

\* categorization_rules (lines 686-692), in dict order
Categories == << "data_entry", "calculation", "reporting", "template", "summary" >>

CategoryKeywords(category) ==
    CASE category = "data_entry"  -> << "input", "entry", "data", "raw", "import", "source", "form" >>
      [] category = "calculation" -> << "calc", "calculation", "compute", "process", "analysis", "logic" >>
      [] category = "reporting"   -> << "report", "summary", "dashboard", "output", "results", "final" >>
      [] category = "template"    -> << "template", "master", "base", "model", "standard" >>
      [] category = "summary"     -> << "summary", "total", "consolidated", "overview", "aggregate" >>

\* Variant of SheetCategories without the `break': every category with a
\* matching keyword gets the sheet.
SheetCategoriesAll(sheet_name) ==
    LET name_lower == Lower(sheet_name)
        hits == {k \in 1..Len(Categories) : AnyIn(CategoryKeywords(Categories[k]), name_lower)}
    IN  IF hits # {} THEN {Categories[k] : k \in hits}
        ELSE IF AnyIn(<< "sheet", "tab", "page" >>, name_lower) THEN {"data_entry"}
        ELSE {}

\* The lists one sheet name is appended to by the loop body (lines 695-708):
\* the first category with a matching keyword, else data_entry for a
\* page-like name, else none.
SheetCategories(sheet_name) ==
    LET name_lower == Lower(sheet_name)
        hits == {k \in 1..Len(Categories) : AnyIn(CategoryKeywords(Categories[k]), name_lower)}
    IN  IF hits # {}
        THEN {Categories[CHOOSE k \in hits : \A h \in hits : k <= h]}
        ELSE IF AnyIn(<< "sheet", "tab", "page" >>, name_lower) THEN {"data_entry"}
        ELSE {}

RECURSIVE SheetsOf(_, _)
\* patterns[f'{category}_sheets'] after the loop over sheet_names
SheetsOf(category, sheet_names) ==
    IF Len(sheet_names) = 0 THEN <<>>
    ELSE (IF category \in SheetCategories(Head(sheet_names)) THEN << Head(sheet_names) >> ELSE <<>>)
         \o SheetsOf(category, Tail(sheet_names))

\* The value detect_automation_patterns returns.  Fault: "patterns.critical".
detect_automation_patterns(w) ==
    IF "patterns.critical" \in w.faults
    THEN [ pattern_score   |-> 0,
           analysis_errors |-> << "Critical pattern analysis error: " \o Exc >> ]
    ELSE
    LET sheet_names == w.sheetnames
        time_based  == SelectIdx(sheet_names,
                          [i \in 1..Len(sheet_names) |-> IsTimeBased(sheet_names[i])], 1)
        timeP       == Len(time_based) >= 2
        repeated    == HasRepeatedPatterns(sheet_names)
        data_entry  == SheetsOf("data_entry", sheet_names)
        calculation == SheetsOf("calculation", sheet_names)
        reporting   == SheetsOf("reporting", sheet_names)
        template    == SheetsOf("template", sheet_names)
        summary     == SheetsOf("summary", sheet_names)
        consol      == Len(data_entry) >= 2 /\ Len(reporting) + Len(summary) >= 1
        templP      == Len(template) > 0 /\ Len(sheet_names) - Len(template) >= 2
        pipeline    == Len(data_entry) > 0 /\ Len(calculation) > 0 /\ Len(reporting) > 0
        detected    == (IF timeP THEN << "Time-based sheet structure detected" >> ELSE <<>>)
                       \o (IF repeated THEN << "Repeated sheet naming patterns detected" >> ELSE <<>>)
                       \o (IF consol THEN << "Data consolidation workflow detected" >> ELSE <<>>)
                       \o (IF templP THEN << "Master template with variations" >> ELSE <<>>)
                       \o (IF pipeline THEN << "Complete business process workflow" >> ELSE <<>>)
        multi       == Len(detected) >= 3
        indicators  == (IF timeP THEN << "Periodic reporting process" >> ELSE <<>>)
                       \o (IF repeated THEN << "Template-based workflow" >> ELSE <<>>)
                       \o (IF consol THEN << "Multi-source data aggregation" >> ELSE <<>>)
                       \o (IF templP THEN << "Standardized reporting process" >> ELSE <<>>)
                       \o (IF pipeline THEN << "End-to-end data processing pipeline" >> ELSE <<>>)
                       \o (IF multi THEN << "Multi-pattern business process" >> ELSE <<>>)
    IN  [ repeated_structures         |-> repeated,
          template_sheets             |-> template,
          data_entry_sheets           |-> data_entry,
          calculation_sheets          |-> calculation,
          reporting_sheets            |-> reporting,
          summary_sheets              |-> summary,
          time_based_patterns         |-> timeP,
          consolidation_patterns      |-> consol,
          pattern_score               |-> (IF timeP THEN 30 ELSE 0) + (IF repeated THEN 25 ELSE 0)
                                          + (IF consol THEN 20 ELSE 0) + (IF templP THEN 15 ELSE 0)
                                          + (IF pipeline THEN 25 ELSE 0) + (IF multi THEN 10 ELSE 0),
          detected_patterns           |-> detected,
          business_process_indicators |-> indicators,
          analysis_errors             |-> <<>> ]

(***************************************************************************)
(* identify_red_flags                                                      *)
(***************************************************************************)
EmptyDict == [k \in {} |-> 0]

EndsWith(s, suffix) ==
    Len(s) >= Len(suffix) /\ SubSeq(s, Len(s) - Len(suffix) + 1, Len(s)) = suffix

\* f"{x:.1f}" of a value held in hundredths
Fmt1(centi) ==
    LET tenths == RoundDiv(centi, 10)
    IN  ToString(tenths \div 10) \o "." \o ToString(tenths % 10)

\* a <<num, den>> fraction compared with a decimal a/b
RatioGT(r, a, b) == r[1] * b > a * r[2]
RatioLT(r, a, b) == r[1] * b < a * r[2]

\* The flags the loop body appends for one sheet (lines 821-830).
SheetRedFlags(sa, sheet_name) ==
    LET merged_count == Get(sa, "merged_cells", 0)
        used_cells   == Get(sa, "used_cells", 1)
        total_cells  == Get(sa, "total_cells", 1)
    IN  (IF merged_count > 50
         THEN << "Sheet '" \o sheet_name \o "' has excessive merged cells ("
                 \o ToString(merged_count) \o ")" >>
         ELSE <<>>)
        \o (IF used_cells > 0 /\ total_cells > 1000 /\ 100 * used_cells < 5 * total_cells
            THEN << "Sheet '" \o sheet_name \o "' has very sparse data (low density)" >>
            ELSE <<>>)

\* the macro detection block (lines 856-878); fault "red_flags.macro"
MacroFlags(w, formula_analysis) ==
    IF "red_flags.macro" \in w.faults THEN << "Macro detection failed: " \o Exc >>
    ELSE LET formula_types == Get(formula_analysis, "formula_types_summary", EmptyDict)
             has_macros ==
                \/ EndsWith(Lower(w.file_path), ".xlsm")
                \/ w.vba_archive
                \/ \E ind \in {"CALL", "RUN", "PERSONAL", "APPLICATION"} :
                      ind \in DOMAIN formula_types
         IN  IF has_macros
             THEN << "VBA macros detected - requires specialized automation approach" >>
             ELSE <<>>

\* Variant of ConsistencyFlags whose second test is an `if', not an `elif'.
ConsistencyFlagsBoth(w) ==
    IF "red_flags.consistency" \in w.faults THEN << "Data consistency check failed: " \o Exc >>
    ELSE LET n      == Min2(Len(w.sheetnames), 10)
             scores == [i \in 1..n |->
                          Get(analyze_sheet_data(w, i), "data_consistency_score", 50)]
         IN  (IF n > 0 /\ SumSeq(scores) < 40 * n
              THEN << "Low data consistency across sheets - requires cleanup before automation" >>
              ELSE <<>>)
             \o (IF n > 0 /\ SumSeq(scores) < 60 * n
                 THEN << "Moderate data consistency issues - some cleanup recommended" >>
                 ELSE <<>>)

\* the data quality block (lines 881-895); fault "red_flags.consistency"
ConsistencyFlags(w) ==
    IF "red_flags.consistency" \in w.faults THEN << "Data consistency check failed: " \o Exc >>
    ELSE LET n      == Min2(Len(w.sheetnames), 10)
             scores == [i \in 1..n |->
                          Get(analyze_sheet_data(w, i), "data_consistency_score", 50)]
         IN  IF n > 0 /\ SumSeq(scores) < 40 * n
             THEN << "Low data consistency across sheets - requires cleanup before automation" >>
             ELSE IF n > 0 /\ SumSeq(scores) < 60 * n
             THEN << "Moderate data consistency issues - some cleanup recommended" >>
             ELSE <<>>

\* Variant of identify_red_flags that extends the list kept in
\* self.analysis_results instead of starting from an empty one.
identify_red_flags_accumulating(w, ar) ==
    Get(ar, "red_flags", <<>>) \o MacroFlags(w, Get(ar, "formulas", EmptyDict))
                              \o ConsistencyFlags(w)

\* The list identify_red_flags returns, reading self.analysis_results (ar).
\* Fault: "red_flags.critical".
identify_red_flags(w, ar) ==
    IF "red_flags.critical" \in w.faults
    THEN << "Critical red flag analysis error: " \o Exc >>
    ELSE
    LET structure_analysis == Get(ar, "structure", EmptyDict)
        formula_analysis   == Get(ar, "formulas", EmptyDict)
        file_size_mb       == Get(structure_analysis, "file_size_mb", 0)
        total_sheets       == Get(structure_analysis, "total_sheets", 0)
        ratio              == Get(formula_analysis, "formula_complexity_ratio", << 0, 1 >>)
        total_formulas     == Get(formula_analysis, "total_formulas", 0)
        n                  == Min2(Len(w.sheetnames), max_sheets_to_analyze)
        sas                == [i \in 1..n |-> analyze_sheet_data(w, i)]
        total_merged       == SumSeq([i \in 1..n |-> Get(sas[i], "merged_cells", 0)])
        protected          == Cardinality({i \in 1..n : Get(sas[i], "sheet_protection", FALSE)})
        heavy              == Cardinality({i \in 1..n :
                                 /\ Get(sas[i], "used_cells", 1) > 100
                                 /\ 10 * Get(sas[i], "formula_cells", 0)
                                      > 7 * Get(sas[i], "used_cells", 1)})
    IN  (IF file_size_mb > 10000
         THEN << "Very large file size (" \o Fmt1(file_size_mb)
                 \o "MB) - may cause performance issues" >>
         ELSE IF file_size_mb > 5000
         THEN << "Large file size (" \o Fmt1(file_size_mb)
                 \o "MB) - requires optimization considerations" >>
         ELSE <<>>)
        \o (IF total_sheets > 30
            THEN << "Excessive number of sheets (" \o ToString(total_sheets)
                    \o ") - increases automation complexity" >>
            ELSE IF total_sheets > 20
            THEN << "High number of sheets (" \o ToString(total_sheets)
                    \o ") - may require phased automation approach" >>
            ELSE <<>>)
        \o (IF RatioGT(ratio, 7, 10)
            THEN << "Very high complex formula ratio (>70%) - significant logic replication required" >>
            ELSE IF RatioGT(ratio, 5, 10)
            THEN << "High complex formula ratio (>50%) - moderate logic replication required" >>
            ELSE <<>>)
        \o (IF total_formulas > 2000
            THEN << "Very high formula count (" \o ToString(total_formulas)
                    \o ") - extensive logic to replicate" >>
            ELSE IF total_formulas > 1000
            THEN << "High formula count (" \o ToString(total_formulas)
                    \o ") - substantial automation effort required" >>
            ELSE <<>>)
        \o ConcatAll([i \in 1..n |-> SheetRedFlags(sas[i], w.sheetnames[i])])
        \o (IF total_merged > 20
            THEN << "High total merged cells across file (" \o ToString(total_merged)
                    \o ") - major automation blocker" >>
            ELSE IF total_merged > 10
            THEN << "Moderate merged cell usage (" \o ToString(total_merged)
                    \o ") - complicates automation" >>
            ELSE <<>>)
        \o (IF protected > 0
            THEN << "Protected sheets detected (" \o ToString(protected)
                    \o ") - may restrict automation access" >>
            ELSE <<>>)
        \o (IF 2 * heavy > total_sheets
            THEN << "Many sheets are formula-heavy - complex logic replication required" >>
            ELSE <<>>)
        \o (IF Get(structure_analysis, "has_hidden_sheets", FALSE)
            THEN << "Hidden sheets detected - may contain critical logic or data" >>
            ELSE <<>>)
        \o (IF Get(structure_analysis, "has_very_hidden_sheets", FALSE)
            THEN << "Very hidden sheets detected - likely contains sensitive or complex logic" >>
            ELSE <<>>)
        \o MacroFlags(w, formula_analysis)
        \o ConsistencyFlags(w)

(***************************************************************************)
(* identify_opportunities                                                  *)
(***************************************************************************)
\* membership in a Python list
InSeq(x, q) == \E i \in 1..Len(q) : q[i] = x

\* The list identify_opportunities returns, reading self.analysis_results (ar).
\* Fault: "opportunities.critical".
identify_opportunities(w, ar) ==
    IF "opportunities.critical" \in w.faults
    THEN << "Opportunity analysis failed - manual review recommended" >>
    ELSE
    LET structure_analysis == Get(ar, "structure", EmptyDict)
        formula_analysis   == Get(ar, "formulas", EmptyDict)
        pattern_analysis   == Get(ar, "patterns", EmptyDict)
        simple_formulas    == Get(formula_analysis, "simple_formulas", 0)
        total_formulas     == Get(formula_analysis, "total_formulas", 1)
        indicators         == Get(pattern_analysis, "business_process_indicators", <<>>)
        found ==
            (IF Get(pattern_analysis, "time_based_patterns", FALSE)
             THEN << "Monthly/quarterly reporting can be fully automated with templates" >>
             ELSE <<>>)
            \o (IF Get(pattern_analysis, "consolidation_patterns", FALSE)
                THEN << "Data consolidation process has high ROI automation potential" >>
                ELSE <<>>)
            \o (IF Get(pattern_analysis, "repeated_structures", FALSE)
                THEN << "Repeated sheet structures can use template-based automation" >>
                ELSE <<>>)
            \o (IF Get(structure_analysis, "named_ranges", 0) > 0
                THEN << "Named ranges indicate well-structured data - easier automation implementation" >>
                ELSE <<>>)
            \o (IF Get(structure_analysis, "total_sheets", 0) <= 10
                THEN << "Manageable number of sheets - straightforward automation scope" >>
                ELSE <<>>)
            \o (IF 10 * simple_formulas > 7 * total_formulas
                THEN << "Majority of formulas are simple - easy to replicate in automation" >>
                ELSE <<>>)
            \o (IF total_formulas < 100
                THEN << "Low formula complexity - minimal logic replication required" >>
                ELSE <<>>)
            \o (IF InSeq("End-to-end data processing pipeline", indicators)
                THEN << "Complete workflow automation possible - high impact potential" >>
                ELSE <<>>)
            \o (IF InSeq("Multi-source data aggregation", indicators)
                THEN << "Data integration automation can eliminate manual consolidation" >>
                ELSE <<>>)
            \o (IF Get(structure_analysis, "file_size_mb", 0) < 1000
                THEN << "Small file size enables cloud-based automation solutions" >>
                ELSE <<>>)
            \o (IF Len(Get(pattern_analysis, "template_sheets", <<>>)) > 0
                THEN << "Master templates detected - can standardize and automate variations" >>
                ELSE <<>>)
            \o (IF Len(Get(pattern_analysis, "data_entry_sheets", <<>>)) > 0
                THEN << "Data entry processes can be automated with forms or APIs" >>
                ELSE <<>>)
            \o (IF Len(Get(pattern_analysis, "reporting_sheets", <<>>)) > 0
                THEN << "Report generation can be automated with scheduled processes" >>
                ELSE <<>>)
    IN  found
        \o (IF Len(found) >= 5
            THEN << "Multiple automation opportunities identified - high ROI potential" >>
            ELSE IF Len(found) >= 3
            THEN << "Several automation opportunities - good ROI potential" >>
            ELSE <<>>)

(***************************************************************************)
(* recommend_automation_tools.  The check-mark and warning-sign emoji that *)
(* open each recommendation are written "[ok]" and "[warn]".               *)
(***************************************************************************)
RECURSIVE Dedup(_, _)
\* order-preserving removal of duplicates (lines 1061-1066)
Dedup(q, seen) ==
    IF Len(q) = 0 THEN <<>>
    ELSE IF Head(q) \in seen THEN Dedup(Tail(q), seen)
    ELSE << Head(q) >> \o Dedup(Tail(q), seen \cup {Head(q)})

\* has_macros of the recommender (lines 1003-1004)
MentionsMacros(flags) ==
    \E i \in 1..Len(flags) :
        Contains("macro", Lower(flags[i])) \/ Contains("vba", Lower(flags[i]))

\* `recommendations' before the duplicates are removed (lines 1015-1058);
\* overall_score is in hundredths.
RuleEmissions(ar, analysis_summary) ==
    LET overall_score      == Get(analysis_summary, "overall_score", 0)
        formula_complexity == Get(analysis_summary, "formula_complexity_ratio", << 0, 1 >>)
        file_size          == Get(analysis_summary, "file_size_mb", 0)
        has_patterns       == Get(analysis_summary, "has_automation_patterns", FALSE)
        total_formulas     == Get(analysis_summary, "total_formulas", 0)
        red_flags          == Get(analysis_summary, "red_flags", <<>>)
        has_macros         == MentionsMacros(red_flags)
        pattern_analysis   == Get(ar, "patterns", EmptyDict)
        recommendations ==
            (IF overall_score >= 7000 /\ RatioLT(formula_complexity, 4, 10) /\ ~has_macros
             THEN << "[ok] Python + pandas + openpyxl - Ideal for data processing, calculations, and report generation",
                     "[ok] Python + xlwings - Excel integration with Python logic, maintains Excel interface" >>
             ELSE IF overall_score >= 5000 /\ RatioLT(formula_complexity, 6, 10)
             THEN << "[warn] Python + pandas - Possible with formula logic replication effort" >>
             ELSE <<>>)
            \o (IF overall_score >= 6000 /\ file_size < 3000 /\ ~has_macros
                THEN << "[ok] Microsoft Power Automate - Excellent for workflow automation and Office 365 integration",
                        "[ok] Power BI + Power Query - Perfect for reporting automation and data transformation" >>
                ELSE IF overall_score >= 4000
                THEN << "[warn] Power Platform - Possible with data restructuring" >>
                ELSE <<>>)
            \o (IF has_macros \/ RatioGT(formula_complexity, 5, 10) \/ total_formulas > 500
                THEN << "[ok] Enhanced VBA/Excel Macros - Build upon existing logic, add automation triggers",
                        "[ok] Excel + VBA + Python integration - Hybrid approach leveraging both platforms" >>
                ELSE IF overall_score >= 6000
                THEN << "[ok] Excel VBA - Native Excel automation for formula-heavy processes" >>
                ELSE <<>>)
            \o (IF overall_score < 5000 \/ Len(red_flags) > 3
                THEN << "[warn] RPA Tools (UiPath, Automation Anywhere) - For processes that can't be restructured",
                        "[warn] Desktop automation - When existing file structure must be preserved" >>
                ELSE <<>>)
            \o (IF has_patterns /\ file_size < 2000 /\ overall_score >= 6000
                THEN << "[ok] Google Sheets + Apps Script - Cloud-based collaborative automation",
                        "[ok] Office 365 + SharePoint + Power Automate - Enterprise cloud automation suite" >>
                ELSE <<>>)
            \o (IF Get(pattern_analysis, "time_based_patterns", FALSE)
                THEN << "[ok] Scheduled automation scripts - Perfect for periodic reporting" >>
                ELSE <<>>)
            \o (IF Get(pattern_analysis, "consolidation_patterns", FALSE)
                THEN << "[ok] ETL tools (SSIS, Alteryx) - Specialized for data consolidation workflows" >>
                ELSE <<>>)
            \o (IF overall_score >= 5000 /\ RatioLT(formula_complexity, 3, 10)
                THEN << "[ok] No-code platforms (Zapier, Microsoft Flow) - Quick implementation option" >>
                ELSE <<>>)
    IN  recommendations

\* Variant of recommend_automation_tools without the two RPA entries.
recommend_automation_tools_no_rpa(w, ar, analysis_summary) ==
    IF "recommend.critical" \in w.faults
    THEN << "Tool recommendation analysis failed - manual assessment required" >>
    ELSE LET u == Dedup(RuleEmissions(ar, analysis_summary), {})
         IN  Truncate(SelectIdx(u, [i \in 1..Len(u) |->
                                      ~Contains("RPA Tools", u[i])
                                      /\ ~Contains("Desktop automation", u[i])], 1), 8)

\* Variant of recommend_automation_tools that caps the list at 5 entries.
recommend_automation_tools_five(w, ar, analysis_summary) ==
    IF "recommend.critical" \in w.faults
    THEN << "Tool recommendation analysis failed - manual assessment required" >>
    ELSE Truncate(Dedup(RuleEmissions(ar, analysis_summary), {}), 5)

\* Variant of recommend_automation_tools that keeps the last 8 entries.
recommend_automation_tools_last(w, ar, analysis_summary) ==
    IF "recommend.critical" \in w.faults
    THEN << "Tool recommendation analysis failed - manual assessment required" >>
    ELSE LET u == Dedup(RuleEmissions(ar, analysis_summary), {})
         IN  SubSeq(u, Max2(1, Len(u) - 7), Len(u))

\* The list recommend_automation_tools returns.  Fault: "recommend.critical".
recommend_automation_tools(w, ar, analysis_summary) ==
    IF "recommend.critical" \in w.faults
    THEN << "Tool recommendation analysis failed - manual assessment required" >>
    ELSE Truncate(Dedup(RuleEmissions(ar, analysis_summary), {}), 8)

(***************************************************************************)
(* Pieces of generate_comprehensive_report                                 *)
(***************************************************************************)
\* Variant of OverallScore whose red-flag penalty has no cap.
OverallScoreUncapped(structure_score, formula_difficulty, pattern_score, n_flags) ==
    Max2(0, 30 * structure_score + 40 * formula_difficulty + 30 * pattern_score
            - 100 * (n_flags * 8))

\* Weighted score and red-flag penalty (lines 1198-1206), in hundredths of a point.
OverallScore(structure_score, formula_difficulty, pattern_score, n_flags) ==
    LET weighted         == 30 * structure_score + 40 * formula_difficulty + 30 * pattern_score
        red_flag_penalty == Min2(n_flags * 8, 40)
    IN  Max2(0, weighted - 100 * red_flag_penalty)

\* Variant of Round1: round(x) without the digits argument, in tenths.
Round0(x100) == 10 * RoundDiv(x100, 100)

\* round(x, 1) of a value in hundredths, in tenths
Round1(x100) == RoundDiv(x100, 10)

HIGH == "HIGH - Excellent automation candidate"
MEDIUM_HIGH == "MEDIUM-HIGH - Very good automation potential"
MEDIUM == "MEDIUM - Good automation potential with preparation"
LOW_MEDIUM == "LOW-MEDIUM - Possible but requires significant restructuring"
LOW == "LOW - Not recommended for automation in current state"
UNKNOWN == "UNKNOWN - Analysis incomplete"

\* Variant of FeasibilityOf with exclusive lower bounds.
FeasibilityOfExclusive(score100) ==
    IF score100 > 8000 THEN << HIGH, "2-4 weeks development + 1 week testing" >>
    ELSE IF score100 > 6500 THEN << MEDIUM_HIGH, "1-2 months development + 2 weeks testing" >>
    ELSE IF score100 > 5000 THEN << MEDIUM, "2-3 months development + 3 weeks testing" >>
    ELSE IF score100 > 3500 THEN << LOW_MEDIUM, "3-4 months development + 1 month testing" >>
    ELSE << LOW, "6+ months or complete redesign recommended" >>

\* The if/elif chain of lines 1214-1228 on a score in hundredths:
\* <<feasibility_level, estimated_effort>>.
FeasibilityOf(score100) ==
    IF score100 >= 8000 THEN << HIGH, "2-4 weeks development + 1 week testing" >>
    ELSE IF score100 >= 6500 THEN << MEDIUM_HIGH, "1-2 months development + 2 weeks testing" >>
    ELSE IF score100 >= 5000 THEN << MEDIUM, "2-3 months development + 3 weeks testing" >>
    ELSE IF score100 >= 3500 THEN << LOW_MEDIUM, "3-4 months development + 1 month testing" >>
    ELSE << LOW, "6+ months or complete redesign recommended" >>

\* truthiness of a dict
NonEmpty(d) == DOMAIN d # {}

\* Variant of CalculateAnalysisCompleteness that counts the red-flag stage
\* only when its list is not empty.
CompletenessNonEmptyFlags(ar) ==
    LET done == (IF "structure" \in DOMAIN ar /\ NonEmpty(ar["structure"]) THEN 1 ELSE 0)
                + (IF "formulas" \in DOMAIN ar /\ NonEmpty(ar["formulas"]) THEN 1 ELSE 0)
                + (IF "patterns" \in DOMAIN ar /\ NonEmpty(ar["patterns"]) THEN 1 ELSE 0)
                + (IF "red_flags" \in DOMAIN ar /\ Len(ar["red_flags"]) > 0 THEN 1 ELSE 0)
    IN  (done * 100) \div 4

\* _calculate_analysis_completeness (lines 1338-1351), a percentage
CalculateAnalysisCompleteness(ar) ==
    LET done == (IF "structure" \in DOMAIN ar /\ NonEmpty(ar["structure"]) THEN 1 ELSE 0)
                + (IF "formulas" \in DOMAIN ar /\ NonEmpty(ar["formulas"]) THEN 1 ELSE 0)
                + (IF "patterns" \in DOMAIN ar /\ NonEmpty(ar["patterns"]) THEN 1 ELSE 0)
                + (IF "red_flags" \in DOMAIN ar THEN 1 ELSE 0)
    IN  (done * 100) \div 4

\* Variant of Put that keeps the value a key already has (dict.setdefault).
PutKeep(d, k, v) == [x \in DOMAIN d \cup {k} |-> IF x \in DOMAIN d THEN d[x] ELSE v]

\* d with d[k] = v (a dict or local-variable assignment)
Put(d, k, v) == [x \in DOMAIN d \cup {k} |-> IF x = k THEN v ELSE d[x]]

\* The dict built at lines 1254-1289; scores are in tenths (round(x, 1)).
\* Reading a local that was never assigned fails, as does the "detail" fault.
DetailedAnalysis(w, ar, l) ==
    IF \/ "detail" \in w.faults
       \/ ~({"structure_score", "pattern_score"} \subseteq DOMAIN l)
    THEN [ error |-> "Summary creation failed: " \o Exc ]
    ELSE
    LET sa == l["structure_analysis"]
        fa == l["formula_analysis"]
        pa == l["pattern_analysis"]
    IN  [ file_info |->
            [ file_name         |-> w.file_path,
              file_path         |-> w.file_path,
              sheets            |-> Get(sa, "total_sheets", 0),
              file_size_mb      |-> Get(sa, "file_size_mb", 0),
              named_ranges      |-> Get(sa, "named_ranges", 0),
              has_hidden_sheets |-> Get(sa, "has_hidden_sheets", FALSE) ],
          formula_analysis |->
            [ total_formulas   |-> Get(fa, "total_formulas", 0),
              complex_formulas |-> Get(fa, "complex_formulas", 0),
              simple_formulas  |-> Get(fa, "simple_formulas", 0),
              complexity_ratio |-> Get(fa, "formula_complexity_ratio", << 0, 1 >>),
              formula_types    |-> Get(fa, "formula_types_summary", EmptyDict),
              difficulty_score |-> Get(fa, "automation_difficulty_score", 0) ],
          pattern_analysis |->
            [ time_based_patterns    |-> Get(pa, "time_based_patterns", FALSE),
              repeated_structures    |-> Get(pa, "repeated_structures", FALSE),
              consolidation_patterns |-> Get(pa, "consolidation_patterns", FALSE),
              detected_patterns      |-> Get(pa, "detected_patterns", <<>>),
              business_indicators    |-> Get(pa, "business_process_indicators", <<>>) ],
          scores |->
            [ structure_score          |-> Round1(100 * l["structure_score"]),
              formula_difficulty_score |->
                  Round1(100 * (100 - Get(fa, "automation_difficulty_score", 50))),
              pattern_score            |-> Round1(100 * l["pattern_score"]),
              overall_score            |-> Round1(l["overall_score"]) ],
          quality_metrics |->
            [ red_flags_count       |-> Len(l["red_flags"]),
              opportunities_count   |-> Len(l["opportunities"]),
              analysis_completeness |-> CalculateAnalysisCompleteness(ar) ] ]

\* The AutomationAssessment built at lines 1295-1310.
BuildAssessment(w, l, timestamp) ==
    [ overall_score              |-> Round1(l["overall_score"]),
      feasibility_level          |-> l["feasibility_level"],
      automation_recommendations |-> l["recommended_tools"],
      detailed_analysis          |-> l["detailed_analysis"],
      red_flags                  |-> l["red_flags"],
      opportunities              |-> l["opportunities"],
      estimated_effort           |-> l["estimated_effort"],
      recommended_tools          |-> l["recommended_tools"],
      analysis_timestamp         |-> timestamp,
      file_info                  |->
        [ name    |-> w.file_path,
          size_mb |-> Get(l["structure_analysis"], "file_size_mb", 0),
          sheets  |-> Get(l["structure_analysis"], "total_sheets", 0) ] ]

\* The safe fallback assessment of the outer handler (lines 1315-1329).
FallbackAssessment(timestamp) ==
    [ overall_score              |-> 0,
      feasibility_level          |-> "ERROR - Analysis failed",
      automation_recommendations |-> << "Manual assessment required due to analysis failure" >>,
      detailed_analysis          |-> [ error |-> Exc ],
      red_flags                  |-> << "Critical analysis error: " \o Exc >>,
      opportunities              |-> <<>>,
      estimated_effort           |-> "Unknown - manual review required",
      recommended_tools          |-> << "Manual assessment required" >>,
      analysis_timestamp         |-> timestamp,
      file_info                  |-> [ name |-> "Error", size_mb |-> 0, sheets |-> 0 ] ]

\* Variant of MakeAssessment without the outer handler: a failure while the
\* assessment is built leaves the function as an exception.
MakeAssessmentNoHandler(w, l, timestamp) ==
    IF "assessment" \in w.faults THEN [ raised |-> Exc ] ELSE BuildAssessment(w, l, timestamp)

\* What generate_comprehensive_report returns (lines 1295-1329): the assessment,
\* or the fallback of the outer handler under the "assessment" fault.
MakeAssessment(w, l, timestamp) ==
    IF "assessment" \in w.faults THEN FallbackAssessment(timestamp)
    ELSE BuildAssessment(w, l, timestamp)

(***************************************************************************)
(* State                                                                   *)
(***************************************************************************)
VARIABLES
    workbook,          \* self.workbook (with self.file_path), loaded
    analysis_results,  \* self.analysis_results
    pc,                \* position inside generate_comprehensive_report
    loc,               \* its local variables assigned so far
    history,           \* the assessments returned so far, oldest first
    now,               \* the clock read for analysis_timestamp
    loaded,            \* what the last call of load_excel_file returned
    run_log            \* the current run's writes and reads of analysis_results
                       \* and its calls of analyze_sheet_data

vars == << workbook, analysis_results, pc, loc, history, now, loaded, run_log >>

\* run_log before any run of generate_comprehensive_report.
NoRun == [ writes |-> EmptyDict, early_reads |-> {}, scans |-> EmptyDict ]

\* log after one more assignment to self.analysis_results[k].
LogWrite(log, k) == [ log EXCEPT !.writes = Put(@, k, Get(@, k, 0) + 1) ]

\* log after self.analysis_results.get(k) for every k of keys: a key that
\* the current run has not written yet is an early read.
LogReads(log, keys) ==
    [ log EXCEPT !.early_reads = @ \cup { k \in keys : k \notin DOMAIN log.writes } ]

\* log after calls[i] more calls of analyze_sheet_data on sheet i.
LogScans(log, calls) ==
    [ log EXCEPT !.scans = [ i \in DOMAIN @ \cup DOMAIN calls |->
                               Get(@, i, 0) + Get(calls, i, 0) ] ]

\* Name lists that are combined with every body and profile.
KeyNameLists ==
    { << "Sheet1" >>,
      << "Jan_Input", "Feb_Input", "Q1_Report", "Summary" >>,
      << "Data_2024", "Data_2025", "Calc", "Q1_Report" >> }

\* Workbooks the checker is started on: every name list on a plain small
\* workbook, the key name lists with every body and profile, two workbooks
\* under the fault sets, one whose sheets share a one-letter base name, and
\* one without macros whose heavily merged sheet is called VBA_Export.
Workbooks ==
    { MakeWorkbook(n, PlainBody, Profile(0, 1024, ".xlsx", FALSE, 0, 0), {}) : n \in NameLists }
    \cup
    { MakeWorkbook(n, b, p, {}) : n \in KeyNameLists, b \in Bodies, p \in Profiles }
    \cup
    { MakeWorkbook(<< "Jan_Input", "Feb_Input", "Q1_Report", "Summary" >>,
                   Body(20, 10, 10, << Run("=INDIRECT(A1)", 190) >>, 0, 5, FALSE, FALSE),
                   Profile(11, 62914560, ".xlsm", FALSE, 0, 1), f) : f \in FaultSets }
    \cup
    { MakeWorkbook(<< "Sheet1" >>, PlainBody, Profile(0, 1024, ".xlsx", FALSE, 0, 0), f) :
        f \in FaultSets }
    \cup
    { MakeWorkbook(<< "A1", "A2", "A3" >>, PlainBody,
                   Profile(0, 1024, ".xlsx", FALSE, 0, 0), {}) }
    \cup
    { MakeWorkbook(<< "VBA_Export", "Summary" >>,
                   Body(300, 10, 100, << Run("=IF(A1>0,A1,0)", 900) >>, 60, 0, FALSE, FALSE),
                   Profile(0, 1024, ".xlsx", FALSE, 0, 0), {}) }

Init ==
    /\ workbook \in Workbooks
    /\ analysis_results = EmptyDict
    /\ pc = "idle"
    /\ loc = EmptyDict
    /\ history = <<>>
    /\ now = 0
    /\ loaded = TRUE
    /\ run_log = NoRun

\* The calls of analyze_sheet_data made by analyze_formulas (line 511): one
\* for each of the first max_sheets_to_analyze sheets.
FormulaScans(w) ==
    IF w.faults \cap { "formulas.raise", "formulas.critical" } # {} THEN EmptyDict
    ELSE [ i \in 1..Min2(Len(w.sheetnames), max_sheets_to_analyze) |-> 1 ]

\* The calls made by identify_red_flags: the sheet loop (line 805) calls it
\* for each of the first max_sheets_to_analyze sheets and the data quality
\* block (line 884) again for each of the first ten.
RedFlagScans(w) ==
    IF w.faults \cap { "red_flags.raise", "red_flags.critical" } # {} THEN EmptyDict
    ELSE [ i \in 1..Min2(Len(w.sheetnames), max_sheets_to_analyze) |->
             IF i <= 10 /\ "red_flags.consistency" \notin w.faults THEN 2 ELSE 1 ]

\* structure_analysis after lines 1153-1159
StructureStage(w) ==
    IF "structure.raise" \in w.faults
    THEN [ structure_score |-> 0, analysis_errors |-> << Exc >> ]
    ELSE analyze_file_structure(w)

\* formula_analysis after lines 1161-1167
FormulaStage(w) ==
    IF "formulas.raise" \in w.faults
    THEN [ automation_difficulty_score |-> 100, analysis_errors |-> << Exc >> ]
    ELSE analyze_formulas(w)

\* pattern_analysis after lines 1169-1175
PatternStage(w) ==
    IF "patterns.raise" \in w.faults
    THEN [ pattern_score |-> 0, analysis_errors |-> << Exc >> ]
    ELSE detect_automation_patterns(w)

\* red_flags after lines 1177-1183
RedFlagStage(w, ar) ==
    IF "red_flags.raise" \in w.faults
    THEN << "Red flag analysis error: " \o Exc >>
    ELSE identify_red_flags(w, ar)

\* opportunities after lines 1185-1189
OpportunityStage(w, ar) ==
    IF "opportunities.raise" \in w.faults
    THEN << "Opportunity analysis error: " \o Exc >>
    ELSE identify_opportunities(w, ar)

\* The locals after lines 1192-1210; the "score" fault strikes at the first
\* statement of the try.
ScoreStage(w, l) ==
    IF "score" \in w.faults
    THEN Put(l, "overall_score", 2500)
    ELSE LET structure_score    == Get(l["structure_analysis"], "structure_score", 0)
             formula_difficulty ==
                 100 - Get(l["formula_analysis"], "automation_difficulty_score", 50)
             pattern_score      == Get(l["pattern_analysis"], "pattern_score", 0)
         IN  Put(Put(Put(Put(l, "structure_score", structure_score),
                         "formula_difficulty", formula_difficulty),
                     "pattern_score", pattern_score),
                 "overall_score",
                 OverallScore(structure_score, formula_difficulty, pattern_score,
                              Len(l["red_flags"])))

\* The locals after lines 1213-1233
TierStage(w, l) ==
    LET f == IF "tier" \in w.faults
             THEN << UNKNOWN, "Manual assessment required" >>
             ELSE FeasibilityOf(l["overall_score"])
    IN  Put(Put(l, "feasibility_level", f[1]), "estimated_effort", f[2])

\* analysis_summary as built at lines 1236-1243 from the locals l.
AnalysisSummary(l) ==
    [ overall_score            |-> l["overall_score"],
      formula_complexity_ratio |->
          Get(l["formula_analysis"], "formula_complexity_ratio", << 0, 1 >>),
      file_size_mb             |-> Get(l["structure_analysis"], "file_size_mb", 0),
      has_automation_patterns  |-> Get(l["pattern_analysis"], "pattern_score", 0) > 20,
      red_flags                |-> l["red_flags"],
      total_formulas           |-> Get(l["formula_analysis"], "total_formulas", 0) ]

\* recommended_tools after lines 1236-1250
RecommendStage(w, ar, l) ==
    IF "recommend.raise" \in w.faults
    THEN << "Tool recommendation failed - manual assessment required" >>
    ELSE recommend_automation_tools(w, ar, AnalysisSummary(l))

\* lines 1153-1159
StageStructure ==
    /\ pc = "idle"
    /\ Len(history) < MaxRuns
    /\ LET structure_analysis == StructureStage(workbook)
       IN  /\ loc' = Put(EmptyDict, "structure_analysis", structure_analysis)
           /\ analysis_results' = Put(analysis_results, "structure", structure_analysis)
    /\ run_log' = LogWrite(NoRun, "structure")
    /\ pc' = "formulas"
    /\ UNCHANGED << workbook, history, now, loaded >>

\* lines 1161-1167
StageFormulas ==
    /\ pc = "formulas"
    /\ LET formula_analysis == FormulaStage(workbook)
       IN  /\ loc' = Put(loc, "formula_analysis", formula_analysis)
           /\ analysis_results' = Put(analysis_results, "formulas", formula_analysis)
    /\ run_log' = LogWrite(LogScans(run_log, FormulaScans(workbook)), "formulas")
    /\ pc' = "patterns"
    /\ UNCHANGED << workbook, history, now, loaded >>

\* Variant of StagePatterns that keeps pattern_analysis in the local
\* variable only, without the assignments of lines 1171 and 1175.
StagePatternsUnstored ==
    /\ pc = "patterns"
    /\ loc' = Put(loc, "pattern_analysis", PatternStage(workbook))
    /\ pc' = "red_flags"
    /\ UNCHANGED << workbook, analysis_results, history, now, loaded, run_log >>

\* lines 1169-1175
StagePatterns ==
    /\ pc = "patterns"
    /\ LET pattern_analysis == PatternStage(workbook)
       IN  /\ loc' = Put(loc, "pattern_analysis", pattern_analysis)
           /\ analysis_results' = Put(analysis_results, "patterns", pattern_analysis)
    /\ run_log' = LogWrite(run_log, "patterns")
    /\ pc' = "red_flags"
    /\ UNCHANGED << workbook, history, now, loaded >>

\* lines 1177-1183; identify_red_flags reads two keys at lines 767-768
StageRedFlags ==
    /\ pc = "red_flags"
    /\ LET red_flags == RedFlagStage(workbook, analysis_results)
       IN  /\ loc' = Put(loc, "red_flags", red_flags)
           /\ analysis_results' = Put(analysis_results, "red_flags", red_flags)
    /\ run_log' =
         LogWrite(LogScans(IF workbook.faults \cap { "red_flags.raise", "red_flags.critical" } # {}
                           THEN run_log
                           ELSE LogReads(run_log, { "structure", "formulas" }),
                           RedFlagScans(workbook)),
                  "red_flags")
    /\ pc' = "opportunities"
    /\ UNCHANGED << workbook, history, now, loaded >>

\* lines 1185-1189; identify_opportunities reads three keys at lines 916-918
StageOpportunities ==
    /\ pc = "opportunities"
    /\ loc' = Put(loc, "opportunities", OpportunityStage(workbook, analysis_results))
    /\ run_log' =
         IF workbook.faults \cap { "opportunities.raise", "opportunities.critical" } # {}
         THEN run_log
         ELSE LogReads(run_log, { "structure", "formulas", "patterns" })
    /\ pc' = "score"
    /\ UNCHANGED << workbook, analysis_results, history, now, loaded >>

\* lines 1192-1210
StageScore ==
    /\ pc = "score"
    /\ loc' = ScoreStage(workbook, loc)
    /\ pc' = "tier"
    /\ UNCHANGED << workbook, analysis_results, history, now, loaded, run_log >>

\* lines 1213-1233
StageTier ==
    /\ pc = "tier"
    /\ loc' = TierStage(workbook, loc)
    /\ pc' = "recommend"
    /\ UNCHANGED << workbook, analysis_results, history, now, loaded, run_log >>

\* lines 1236-1250; the recommender reads one key at line 1048
StageRecommend ==
    /\ pc = "recommend"
    /\ loc' = Put(loc, "recommended_tools", RecommendStage(workbook, analysis_results, loc))
    /\ run_log' =
         IF workbook.faults \cap { "recommend.raise", "recommend.critical" } # {}
         THEN run_log
         ELSE LogReads(run_log, { "patterns" })
    /\ pc' = "detail"
    /\ UNCHANGED << workbook, analysis_results, history, now, loaded >>

\* lines 1253-1292; the completeness figure reads four keys at lines 1342-1348
StageDetail ==
    /\ pc = "detail"
    /\ loc' = Put(loc, "detailed_analysis", DetailedAnalysis(workbook, analysis_results, loc))
    /\ run_log' =
         IF "detail" \in workbook.faults
         THEN run_log
         ELSE LogReads(run_log, { "structure", "formulas", "patterns", "red_flags" })
    /\ pc' = "return"
    /\ UNCHANGED << workbook, analysis_results, history, now, loaded >>

\* lines 1295-1313 (and 1315-1329): the assessment is returned
StageReturn ==
    /\ pc = "return"
    /\ history' = Append(history, MakeAssessment(workbook, loc, now))
    /\ now' = now + 1
    /\ loc' = EmptyDict
    /\ pc' = "idle"
    /\ UNCHANGED << workbook, analysis_results, loaded, run_log >>

Next ==
    \/ StageStructure
    \/ StageFormulas
    \/ StagePatterns
    \/ StageRedFlags
    \/ StageOpportunities
    \/ StageScore
    \/ StageTier
    \/ StageRecommend
    \/ StageDetail
    \/ StageReturn

Spec == Init /\ [][Next]_vars

(***************************************************************************)
(* The tier mapping on its own: the tier block (lines 1213-1233) applied   *)
(* to every score from 0.00 to MaxScore100 / 100.                          *)
(***************************************************************************)
\* Largest score, in hundredths of a point, given to the tier block.
MaxScore100 == 10000

TierInit ==
    /\ workbook = MakeWorkbook(<< "Sheet1" >>, PlainBody,
                               Profile(0, 1024, ".xlsx", FALSE, 0, 0), {})
    /\ analysis_results = EmptyDict
    /\ pc = "tier"
    /\ loc \in { Put(EmptyDict, "overall_score", s) : s \in 0..MaxScore100 }
    /\ history = <<>>
    /\ now = 0
    /\ loaded = TRUE
    /\ run_log = NoRun

TierSpec == TierInit /\ [][StageTier]_vars

(***************************************************************************)
(* The structure analysis on its own: analyze_file_structure (lines        *)
(* 216-316, called at 1153-1159) on workbooks of 1..MaxStructSheets        *)
(* sheets, with named-range counts, hidden sheets and file sizes on both   *)
(* sides of every threshold of the scoring block.                          *)
(***************************************************************************)
\* Largest number of sheets of a workbook given to the structure analysis.
MaxStructSheets == 31

SheetNamesUpTo(n) == [i \in 1..n |-> "Sheet" \o ToString(i)]

\* 4.99 MB, 4.996 MB (stored as 5.0), 5 MB, 50 MB and 50.01 MB lie around
\* the two size thresholds of lines 297-300.
StructProfiles ==
    { Profile(nm, b, ".xlsx", FALSE, h, v) :
        nm \in { 0, 1, 10, 11 },
        b \in { 1024, 5232394, 5238686, 5242880, 52428800, 52439286 },
        h \in { 0, 1 }, v \in { 0, 1 } }

StructFaultSets ==
    { {}, { "structure.sheet_names" }, { "structure.file_size" },
      { "structure.named_ranges" }, { "structure.visibility" },
      { "structure.scoring" }, { "structure.raise" } }

StructInit ==
    /\ workbook \in { MakeWorkbook(SheetNamesUpTo(n), PlainBody, p, f) :
                        n \in 1..MaxStructSheets, p \in StructProfiles,
                        f \in StructFaultSets }
    /\ analysis_results = EmptyDict
    /\ pc = "idle"
    /\ loc = EmptyDict
    /\ history = <<>>
    /\ now = 0
    /\ loaded = TRUE
    /\ run_log = NoRun

StructureSpec == StructInit /\ [][StageStructure]_vars

(***************************************************************************)
(* The per-sheet consistency score on its own: line 453 of                 *)
(* analyze_sheet_data applied to sheet analyses of up to MaxUsedCells used *)
(* cells and MaxMergedCells merged cells.                                  *)
(***************************************************************************)
\* Largest used-cell and merged-cell counts of a sheet analysis.
MaxUsedCells == 21
MaxMergedCells == 5

\* total_cells for u used cells: the sheet is full, ten or twenty times as
\* large as its used part, or one cell beyond that; or a 10 x 10 range.
TotalCellsFor(u) ==
    { t \in { 100, u, 10 * u, 10 * u + 1, 20 * u, 20 * u + 1 } : t >= u }

\* The analysis dict of a sheet as line 453 finds it.
SheetAnalysis(t, u, f, m, tb, dv, h) ==
    [ sheet_name          |-> "Sheet1",
      total_cells         |-> t,
      used_cells          |-> u,
      formula_cells       |-> f,
      merged_cells        |-> m,
      has_tables          |-> tb,
      has_data_validation |-> dv,
      headers_detected    |-> h ]

ConsistencyInit ==
    /\ workbook = MakeWorkbook(<< "Sheet1" >>, PlainBody,
                               Profile(0, 1024, ".xlsx", FALSE, 0, 0), {})
    /\ analysis_results = EmptyDict
    /\ pc = "consistency"
    /\ \E u \in 0..MaxUsedCells : \E f \in 0..u : \E t \in TotalCellsFor(u) :
         \E m \in 0..MaxMergedCells : \E tb \in BOOLEAN : \E dv \in BOOLEAN :
         \E h \in { 0, 3 } :
            loc = SheetAnalysis(t, u, f, m, tb, dv, h)
    /\ history = <<>>
    /\ now = 0
    /\ loaded = TRUE
    /\ run_log = NoRun

\* line 453
ScoreConsistency ==
    /\ pc = "consistency"
    /\ loc' = Put(loc, "data_consistency_score", CalculateConsistencyScore(loc))
    /\ pc' = "scored"
    /\ UNCHANGED << workbook, analysis_results, history, now, loaded, run_log >>

ConsistencySpec == ConsistencyInit /\ [][ScoreConsistency]_vars

(***************************************************************************)
(* The difficulty block of analyze_formulas on its own (lines 554-587),    *)
(* applied to formula counts up to MaxFewFormulas and to the counts around *)
(* its two volume thresholds.                                              *)
(***************************************************************************)
\* Every total up to this one is tried with every number of complex formulas.
MaxFewFormulas == 20

\* 100/101 and 1000/1001 lie around the volume thresholds of lines 582-585;
\* 190 is the all-complex sample workbook.
FormulaTotals == (0..MaxFewFormulas) \cup { 100, 101, 190, 1000, 1001 }

DifficultyInit ==
    /\ workbook = MakeWorkbook(<< "Sheet1" >>, PlainBody,
                               Profile(0, 1024, ".xlsx", FALSE, 0, 0), {})
    /\ analysis_results = EmptyDict
    /\ pc = "difficulty"
    /\ \E t \in FormulaTotals : \E c \in 0..t :
          loc = [ total_formulas              |-> t,
                  complex_formulas            |-> c,
                  simple_formulas             |-> t - c ]
    /\ history = <<>>
    /\ now = 0
    /\ loaded = TRUE
    /\ run_log = NoRun

\* lines 554-587
ScoreDifficulty ==
    /\ pc = "difficulty"
    /\ loc' = Put(Put(loc, "formula_complexity_ratio",
                      << loc.complex_formulas, Max2(1, loc.total_formulas) >>),
                  "automation_difficulty_score",
                  DifficultyScore(loc.total_formulas, loc.complex_formulas))
    /\ pc' = "difficulty_scored"
    /\ UNCHANGED << workbook, analysis_results, history, now, loaded, run_log >>

DifficultySpec == DifficultyInit /\ [][ScoreDifficulty]_vars

(***************************************************************************)
(* analyze_sheet_data on its own (lines 320-465): one sheet of up to       *)
(* MaxPlainCells plain cells and MaxFormulaCells formula cells, whose cell *)
(* objects do or do not expose a data_validation attribute.                *)
(***************************************************************************)
\* Largest numbers of plain and of formula cells of the analysed sheet.
MaxPlainCells == 4
MaxFormulaCells == 3

SheetInit ==
    /\ \E v \in 0..MaxPlainCells : \E n \in 0..MaxFormulaCells :
         \E dv \in BOOLEAN : \E tb \in BOOLEAN : \E h \in { 0, 3 } :
            workbook = MakeWorkbook(<< "Sheet1" >>,
                          [ Body(5, 5, v, IF n = 0 THEN <<>> ELSE << Run("=A1*2", n) >>,
                                 0, h, FALSE, tb) EXCEPT !.dv_attr = dv ],
                          Profile(0, 1024, ".xlsx", FALSE, 0, 0), {})
    /\ analysis_results = EmptyDict
    /\ pc = "sheet"
    /\ loc = EmptyDict
    /\ history = <<>>
    /\ now = 0
    /\ loaded = TRUE
    /\ run_log = NoRun

\* lines 333-456: the analysis dict of the first sheet
AnalyzeSheet ==
    /\ pc = "sheet"
    /\ loc' = analyze_sheet_data(workbook, 1)
    /\ pc' = "sheet_done"
    /\ UNCHANGED << workbook, analysis_results, history, now, loaded, run_log >>

SheetSpec == SheetInit /\ [][AnalyzeSheet]_vars

(***************************************************************************)
(* The stages up to identify_red_flags (lines 1153-1183) on workbooks      *)
(* whose size, sheet count, formula mix and merged cells lie on both sides *)
(* of the two-level thresholds of lines 770-796 and 836-895.               *)
(***************************************************************************)
\* Formula mixes: none; 1000 simple; 1001 and 2000 with the complex share at
\* or just below a threshold; 1001 and 2001 with it just above.
FormulaMixes ==
    { <<>>,
      << Run("=SUM(A1:A9)", 1000) >>,
      << Run("=OFFSET(A1,1,1)", 500), Run("=SUM(A1:A9)", 501) >>,
      << Run("=OFFSET(A1,1,1)", 501), Run("=SUM(A1:A9)", 500) >>,
      << Run("=OFFSET(A1,1,1)", 1400), Run("=SUM(A1:A9)", 600) >>,
      << Run("=OFFSET(A1,1,1)", 1401), Run("=SUM(A1:A9)", 600) >> }

\* Sheet counts around 20 and 30, up to MaxFlagSheets.
MaxFlagSheets == 31
FlagSheetCounts == { n \in { 1, 20, 21, 30, 31 } : n <= MaxFlagSheets } \cup { MaxFlagSheets }

\* 1 KB, 50 MB, 50.01 MB, 100 MB and 100.01 MB
FlagFileSizes == { 1024, 52428800, 52439286, 104857600, 104868086 }

\* One-sheet workbooks take every size, formula mix and merged-cell count;
\* the larger ones are small files of plain sheets.
RedFlagInit ==
    /\ \E n \in FlagSheetCounts : \E v \in { 20, 100 } : \E f \in FormulaMixes :
         \E m \in { 0, 10, 11, 20, 21 } : \E b \in FlagFileSizes :
            /\ n = 1 \/ (v = 100 /\ f = <<>> /\ b = 1024)
            /\ workbook = MakeWorkbook(SheetNamesUpTo(n),
                                       Body(100, 10, v, f, m, 0, FALSE, FALSE),
                                       Profile(0, b, ".xlsx", FALSE, 0, 0), {})
    /\ analysis_results = EmptyDict
    /\ pc = "idle"
    /\ loc = EmptyDict
    /\ history = <<>>
    /\ now = 0
    /\ loaded = TRUE
    /\ run_log = NoRun

RedFlagNext == StageStructure \/ StageFormulas \/ StagePatterns \/ StageRedFlags

RedFlagSpec == RedFlagInit /\ [][RedFlagNext]_vars

(***************************************************************************)
(* One checker used for several files: load_excel_file (lines 147-203)     *)
(* between the runs of generate_comprehensive_report, as                   *)
(* ExcelAutomationBot.analyze_file (lines 1476-1505) and direct callers    *)
(* use it.                                                                 *)
(***************************************************************************)
\* The files that pass validate_file_path: a small plain workbook, a 60 MB
\* macro workbook with a very hidden sheet and 190 volatile formulas, and a
\* small workbook whose stages all take their failure handlers.
ReuseFiles ==
    { MakeWorkbook(<< "Sheet1" >>, PlainBody, Profile(0, 1024, ".xlsx", FALSE, 0, 0), {}),
      MakeWorkbook(<< "Jan_Input", "Feb_Input", "Q1_Report", "Summary" >>,
                   Body(20, 10, 10, << Run("=INDIRECT(A1)", 190) >>, 0, 5, FALSE, FALSE),
                   Profile(11, 62914560, ".xlsm", TRUE, 0, 1), {}),
      MakeWorkbook(<< "Data_2024", "Data_2025" >>, PlainBody,
                   Profile(0, 2048, ".xlsx", FALSE, 0, 0), RaiseFaults) }

\* The object load_workbook returns for file f when the file has no sheets.
NoSheets(f) ==
    [ f EXCEPT !.sheetnames = <<>>, !.sheet_state = <<>>, !.bodies = <<>> ]

\* The object load_workbook(data_only=True) returns for file f: every
\* formula cell shows its cached value.
DataOnly(f) ==
    [ f EXCEPT !.bodies =
        [ i \in DOMAIN @ |->
            [ @[i] EXCEPT !.values = @ + SumSeq([k \in 1..Len(f.bodies[i].formulas) |->
                                                    f.bodies[i].formulas[k].n]),
                          !.formulas = <<>> ] ] ]

ReuseInit ==
    /\ workbook \in ReuseFiles
    /\ analysis_results = EmptyDict
    /\ pc = "idle"
    /\ loc = EmptyDict
    /\ history = <<>>
    /\ now = 0
    /\ loaded = TRUE
    /\ run_log = NoRun

\* lines 159-162: validate_file_path rejects the path
LoadValidationFails ==
    /\ pc = "idle"
    /\ loaded' = FALSE
    /\ UNCHANGED << workbook, analysis_results, pc, loc, history, now, run_log >>

\* lines 164-180: self.file_path is assigned, then load_workbook fails in
\* both modes.  The file size is read from self.file_path by the analysis.
LoadDecodeFails ==
    /\ pc = "idle"
    /\ \E f \in ReuseFiles :
          workbook' = [ workbook EXCEPT !.file_path  = f.file_path,
                                        !.size_bytes = f.size_bytes ]
    /\ loaded' = FALSE
    /\ UNCHANGED << analysis_results, pc, loc, history, now, run_log >>

\* lines 164-185: the file is decoded and has no sheets
LoadNoSheets ==
    /\ pc = "idle"
    /\ \E f \in ReuseFiles : workbook' = NoSheets(f)
    /\ loaded' = FALSE
    /\ UNCHANGED << analysis_results, pc, loc, history, now, run_log >>

\* lines 164-171 and 183-193: the file is decoded with its formulas
LoadSucceeds ==
    /\ pc = "idle"
    /\ \E f \in ReuseFiles : workbook' = f
    /\ loaded' = TRUE
    /\ UNCHANGED << analysis_results, pc, loc, history, now, run_log >>

\* lines 164-177 and 183-193: the first load_workbook fails and the file is
\* decoded in data-only mode
LoadDataOnly ==
    /\ pc = "idle"
    /\ \E f \in ReuseFiles : workbook' = DataOnly(f)
    /\ loaded' = TRUE
    /\ UNCHANGED << analysis_results, pc, loc, history, now, run_log >>

\* A call of load_excel_file that returns False.
FailedLoad == LoadValidationFails \/ LoadDecodeFails \/ LoadNoSheets

ReuseNext ==
    \/ LoadValidationFails
    \/ LoadDecodeFails
    \/ LoadNoSheets
    \/ LoadSucceeds
    \/ LoadDataOnly
    \/ StageStructure
    \/ StageFormulas
    \/ StagePatterns
    \/ StageRedFlags
    \/ StageOpportunities
    \/ StageScore
    \/ StageTier
    \/ StageRecommend
    \/ StageDetail
    \/ StageReturn

ReuseSpec == ReuseInit /\ [][ReuseNext]_vars

\* The locals of generate_comprehensive_report before its return statement
\* when it runs on workbook w with self.analysis_results starting as start.
RunLocals(w, start) ==
    LET structure_analysis == StructureStage(w)
        formula_analysis   == FormulaStage(w)
        pattern_analysis   == PatternStage(w)
        ar3 == Put(Put(Put(start, "structure", structure_analysis),
                       "formulas", formula_analysis),
                   "patterns", pattern_analysis)
        red_flags          == RedFlagStage(w, ar3)
        ar4 == Put(ar3, "red_flags", red_flags)
        l5  == Put(Put(Put(Put(Put(EmptyDict, "structure_analysis", structure_analysis),
                               "formula_analysis", formula_analysis),
                           "pattern_analysis", pattern_analysis),
                       "red_flags", red_flags),
                   "opportunities", OpportunityStage(w, ar4))
        l7  == TierStage(w, ScoreStage(w, l5))
        l8  == Put(l7, "recommended_tools", RecommendStage(w, ar4, l7))
    IN  Put(l8, "detailed_analysis", DetailedAnalysis(w, ar4, l8))

\* The assessment a newly constructed checker returns for workbook w.
FreshAssessment(w, timestamp) == MakeAssessment(w, RunLocals(w, EmptyDict), timestamp)

(***************************************************************************)
(* Properties                                                              *)
(***************************************************************************)
\* The fields of AutomationAssessment the callers read.
AssessmentFields ==
    { "overall_score", "feasibility_level", "estimated_effort", "recommended_tools",
      "red_flags", "opportunities" }

\* The five regular tiers, lowest first.
Tiers == << LOW, LOW_MEDIUM, MEDIUM, MEDIUM_HIGH, HIGH >>

TierRank(level) == CHOOSE k \in 1..Len(Tiers) : Tiers[k] = level

IsList(q) == DOMAIN q = 1..Len(q)

\* The elements of a list
Elems(q) == {q[i] : i \in 1..Len(q)}

\* C1: once a workbook is loaded, every run of generate_comprehensive_report
\* ends by returning an assessment, never by an exception, and the assessment
\* has overall_score, feasibility_level, estimated_effort, recommended_tools,
\* red_flags and opportunities set, whichever of the stages fail.
C1_AlwaysReturnsAssessment ==
    \A i \in 1..Len(history) :
        LET a == history[i]
        IN  /\ AssessmentFields \subseteq DOMAIN a
            /\ a.overall_score \in Int
            /\ Len(a.feasibility_level) > 0
            /\ Len(a.estimated_effort) > 0
            /\ IsList(a.recommended_tools)
            /\ IsList(a.red_flags)
            /\ IsList(a.opportunities)

\* C1 witness: a run returned although all seven stages failed.
C1_Witness ==
    /\ Len(history) > 0
    /\ workbook.faults = RaiseFaults

\* C2: every score of a returned assessment lies in [0, 100]: overall_score
\* and the four scores of detailed_analysis.scores (in tenths: 0..1000).
C2_ScoresWithinRange ==
    \A i \in 1..Len(history) :
        LET a == history[i]
        IN  /\ a.overall_score \in 0..1000
            /\ "scores" \in DOMAIN a.detailed_analysis =>
                  \A k \in { "structure_score", "formula_difficulty_score",
                             "pattern_score", "overall_score" } :
                      a.detailed_analysis.scores[k] \in 0..1000

\* C3: when the scoring block completes, the overall score is
\* max(0, 0.3 * structure + 0.4 * (100 - difficulty) + 0.3 * pattern - min(8n, 40))
\* clamped to [0, 100], n the number of red flags; for these sub-scores the
\* score does not grow with n, and the penalty taken is at most 40 points.
C3_OverallScoreFormula ==
    ("overall_score" \in DOMAIN loc /\ "score" \notin workbook.faults) =>
        LET s        == Get(loc["structure_analysis"], "structure_score", 0)
            fd       == 100 - Get(loc["formula_analysis"], "automation_difficulty_score", 50)
            p        == Get(loc["pattern_analysis"], "pattern_score", 0)
            n        == Len(loc["red_flags"])
            weighted == 30 * s + 40 * fd + 30 * p
            pen      == 100 * (IF 8 * n <= 40 THEN 8 * n ELSE 40)
            expected == IF weighted - pen < 0 THEN 0
                        ELSE IF weighted - pen > 10000 THEN 10000
                        ELSE weighted - pen
        IN  /\ loc["overall_score"] = expected
            /\ weighted - loc["overall_score"] <= 4000
            /\ \A m \in 0..n :
                  /\ OverallScore(s, fd, p, m + 1) <= OverallScore(s, fd, p, m)
                  /\ weighted - OverallScore(s, fd, p, m) <= 4000

\* C3 witness: a score was computed from more than five red flags, so the
\* cap of the penalty is what keeps it at 40.
C3_Witness ==
    /\ "overall_score" \in DOMAIN loc
    /\ "score" \notin workbook.faults
    /\ Len(loc["red_flags"]) > 5
    /\ loc["overall_score"] > 0

\* C4: the tier is a total function of the score with inclusive lower bounds,
\* >= 80 HIGH, >= 65 MEDIUM-HIGH, >= 50 MEDIUM, >= 35 LOW-MEDIUM, else LOW;
\* every score gets one of the five tiers, each tier has one effort string,
\* and a higher score never gets a lower tier.
C4_TierMapping ==
    "feasibility_level" \in DOMAIN loc =>
        LET score == loc["overall_score"]
            level == loc["feasibility_level"]
        IN  /\ level = (IF score >= 8000 THEN HIGH
                        ELSE IF score >= 6500 THEN MEDIUM_HIGH
                        ELSE IF score >= 5000 THEN MEDIUM
                        ELSE IF score >= 3500 THEN LOW_MEDIUM
                        ELSE LOW)
            /\ loc["estimated_effort"] =
                  (CASE level = HIGH        -> "2-4 weeks development + 1 week testing"
                     [] level = MEDIUM_HIGH -> "1-2 months development + 2 weeks testing"
                     [] level = MEDIUM      -> "2-3 months development + 3 weeks testing"
                     [] level = LOW_MEDIUM  -> "3-4 months development + 1 month testing"
                     [] level = LOW         -> "6+ months or complete redesign recommended")
            /\ score > 0 => TierRank(FeasibilityOf(score - 1)[1]) <= TierRank(level)

\* C4 witness: the tier block has mapped the score 80.00 to HIGH.
C4_Witness ==
    /\ "feasibility_level" \in DOMAIN loc
    /\ loc["overall_score"] = 8000
    /\ loc["feasibility_level"] = HIGH

\* C5: for every returned assessment whose tier was computed and that carries
\* a scores block, the tier mapping applied to the rounded overall_score of
\* detailed_analysis.scores gives the feasibility_level of the assessment.
C5_TierRoundTrip ==
    \A i \in 1..Len(history) :
        LET a == history[i]
        IN  ("scores" \in DOMAIN a.detailed_analysis /\ "tier" \notin workbook.faults) =>
                FeasibilityOf(10 * a.detailed_analysis.scores.overall_score)[1]
                    = a.feasibility_level

\* C5 witness: an assessment was returned whose unrounded score lies half a
\* point under a tier threshold and whose tier is the lower one.
C5_Witness ==
    /\ pc = "return"
    /\ "scores" \in DOMAIN loc["detailed_analysis"]
    /\ "tier" \notin workbook.faults
    /\ loc["overall_score"] \in { 7950, 4950 }

\* C6: two runs over the same workbook return assessments that agree on the
\* scores, the tier, the red flags, the opportunities and the recommended
\* tools, and on everything else but the timestamp.
C6_Deterministic ==
    \A i, j \in 1..Len(history) :
        [history[i] EXCEPT !.analysis_timestamp = 0]
            = [history[j] EXCEPT !.analysis_timestamp = 0]

\* C6 witness: two runs have returned, with red flags, at different times.
C6_Witness ==
    /\ Len(history) >= 2
    /\ Len(history[2].red_flags) > 0
    /\ history[1].analysis_timestamp # history[2].analysis_timestamp

\* The formulas analyze_formulas collects of the workbook: the runs of its sheets.
CollectedRuns == ConcatAll([i \in 1..Len(workbook.sheetnames) |-> workbook.bodies[i].formulas])

\* A formula that matches none of the three vocabularies.
MatchesNoVocabulary(text) ==
    ~AnyIn(complex_formula_patterns \o moderate_formula_patterns \o simple_formula_patterns,
           Upper(text))

\* C7: every collected formula is counted in exactly one of complex_formulas
\* and simple_formulas, so the two add up to total_formulas; a formula of no
\* vocabulary, or one whose classification fails, is counted as complex.
C7_ClassificationTotal ==
    ("formulas" \in DOMAIN analysis_results
        /\ "complex_formulas" \in DOMAIN analysis_results["formulas"]) =>
        LET fa      == analysis_results["formulas"]
            unknown == SumSeq([k \in 1..Len(CollectedRuns) |->
                                 IF MatchesNoVocabulary(CollectedRuns[k].text)
                                 THEN CollectedRuns[k].n ELSE 0])
        IN  /\ fa.complex_formulas + fa.simple_formulas = fa.total_formulas
            /\ fa.total_formulas = SumSeq([k \in 1..Len(CollectedRuns) |-> CollectedRuns[k].n])
            /\ fa.simple_formulas <= fa.total_formulas - unknown
            /\ "formulas.classify" \in workbook.faults =>
                  fa.complex_formulas = fa.total_formulas

\* C7 witness: a workbook with formulas of no vocabulary and formulas of the
\* simple vocabulary was analysed.
C7_Witness ==
    /\ "formulas" \in DOMAIN analysis_results
    /\ "complex_formulas" \in DOMAIN analysis_results["formulas"]
    /\ \E k \in 1..Len(CollectedRuns) : MatchesNoVocabulary(CollectedRuns[k].text)
    /\ analysis_results["formulas"].simple_formulas > 0

\* The five role lists of a pattern analysis.
RoleLists(pa) ==
    << pa.data_entry_sheets, pa.calculation_sheets, pa.reporting_sheets,
       pa.template_sheets, pa.summary_sheets >>

\* C8: after detect_automation_patterns every sheet name is in at most one of
\* the five role lists, and at most once in it.
C8_RolesExclusive ==
    ("patterns" \in DOMAIN analysis_results
        /\ "data_entry_sheets" \in DOMAIN analysis_results["patterns"]) =>
        LET lists == RoleLists(analysis_results["patterns"])
        IN  \A s \in Elems(workbook.sheetnames) :
                Cardinality({ <<c, k>> \in (1..5) \X (1..Len(workbook.sheetnames)) :
                                 k <= Len(lists[c]) /\ lists[c][k] = s }) <= 1

\* C8 witness: a sheet named Summary, which has keywords of two roles, was
\* categorized.
C8_Witness ==
    /\ "patterns" \in DOMAIN analysis_results
    /\ "data_entry_sheets" \in DOMAIN analysis_results["patterns"]
    /\ "Summary" \in Elems(analysis_results["patterns"].reporting_sheets)

\* The workbook of the first scenario: one visible sheet, no formulas, no
\* merged cells, no named ranges, a file of 1 KB, no failing stage.
OneSheetScenario ==
    /\ Len(workbook.sheetnames) = 1
    /\ workbook.sheet_state[1] = "visible"
    /\ workbook.bodies[1].formulas = <<>>
    /\ workbook.bodies[1].merged = 0
    /\ workbook.defined_names = 0
    /\ workbook.size_bytes = 1024
    /\ workbook.faults = {}

\* Such a sheet raises no flag of its own and none for the file.
CleanSheet ==
    LET b == workbook.bodies[1]
    IN  /\ ~b.protection
        /\ ~workbook.vba_archive
        /\ ~EndsWith(Lower(workbook.file_path), ".xlsm")
        /\ ~(b.max_row * b.max_column > 100 /\ 100 * b.values < 5 * b.max_row * b.max_column)

\* C9 as stated: in the scenario structure_score is 100, the formula
\* contribution 80, pattern_score 0, red_flags empty, the overall score 62.0
\* and the tier MEDIUM.
C9_AsStated ==
    (OneSheetScenario /\ Len(history) > 0) =>
        LET a == history[1]
        IN  /\ a.detailed_analysis.scores.structure_score = 1000
            /\ a.detailed_analysis.scores.formula_difficulty_score = 800
            /\ a.detailed_analysis.scores.pattern_score = 0
            /\ a.red_flags = <<>>
            /\ a.overall_score = 620
            /\ a.feasibility_level = MEDIUM

\* C9 amended: in the scenario structure_score is 90 (70 + 15 + 5), the
\* formula contribution 80 and pattern_score 0; red_flags is empty when the
\* sheet is unprotected, the file holds no macros and the sheet is not
\* sparse, and with no red flag the overall score is 59.0 and the tier MEDIUM.
C9_OneSheetScenario ==
    (OneSheetScenario /\ Len(history) > 0) =>
        LET a == history[1]
        IN  /\ a.detailed_analysis.scores.structure_score = 900
            /\ a.detailed_analysis.scores.formula_difficulty_score = 800
            /\ a.detailed_analysis.scores.pattern_score = 0
            /\ CleanSheet => a.red_flags = <<>>
            /\ a.red_flags = <<>> => (a.overall_score = 590 /\ a.feasibility_level = MEDIUM)

\* C9 witness: the scenario was run on a clean sheet and returned 59.0.
C9_Witness ==
    /\ OneSheetScenario
    /\ CleanSheet
    /\ Len(history) > 0
    /\ history[1].overall_score = 590

\* C10: for the sheet names Jan_Input, Feb_Input, Q1_Report, Summary the
\* pattern analysis has time_based_patterns true, data entry sheets
\* {Jan_Input, Feb_Input}, reporting sheets {Q1_Report}, summary sheets
\* {Summary}, consolidation_patterns true and pattern_score >= 50.
C10_MonthlyScenario ==
    (/\ workbook.sheetnames = << "Jan_Input", "Feb_Input", "Q1_Report", "Summary" >>
     /\ "patterns" \in DOMAIN analysis_results
     /\ "data_entry_sheets" \in DOMAIN analysis_results["patterns"]) =>
        LET pa == analysis_results["patterns"]
        IN  /\ pa.time_based_patterns
            /\ Elems(pa.data_entry_sheets) = { "Jan_Input", "Feb_Input" }
            /\ Elems(pa.reporting_sheets) = { "Q1_Report" }
            /\ Elems(pa.summary_sheets) = { "Summary" }
            /\ pa.consolidation_patterns
            /\ pa.pattern_score >= 50

\* C11: when the scoring block fails, the returned assessment has
\* overall_score 25.0 and the tier "UNKNOWN - Analysis incomplete" with the
\* effort "Manual assessment required", none of the five regular tiers.
C11_ScoringFailureTier ==
    \A i \in 1..Len(history) :
        ("score" \in workbook.faults /\ "assessment" \notin workbook.faults) =>
            /\ history[i].overall_score = 250
            /\ history[i].feasibility_level = UNKNOWN
            /\ history[i].estimated_effort = "Manual assessment required"

\* The diagnostics the stages recorded in the run that has just returned:
\* the analysis_errors of the structure, formula and pattern analyses.
RecordedDiagnostics ==
    UNION { Elems(Get(Get(analysis_results, k, EmptyDict), "analysis_errors", <<>>)) :
              k \in { "structure", "formulas", "patterns" } }

\* C12: every diagnostic a stage recorded during a run is visible in the
\* returned assessment, as an entry of red_flags or under
\* detailed_analysis.analysis_errors.
C12_DiagnosticsVisible ==
    (pc = "idle" /\ Len(history) > 0) =>
        LET a == history[Len(history)]
        IN  \A d \in RecordedDiagnostics :
                \/ d \in Elems(a.red_flags)
                \/ /\ "analysis_errors" \in DOMAIN a.detailed_analysis
                   /\ d \in Elems(a.detailed_analysis.analysis_errors)

\* The number of the stages structure, formulas and patterns whose result of
\* the run that has just returned is a non-empty dict.
NonEmptyDictStages ==
    Cardinality({ k \in { "structure", "formulas", "patterns" } :
                    k \in DOMAIN analysis_results /\ DOMAIN analysis_results[k] # {} })

\* C13 as stated: analysis_completeness is 25 times the number of the four
\* major stages that produced non-empty output in the run.
C13_AsStated ==
    (pc = "idle" /\ Len(history) > 0
        /\ "quality_metrics" \in DOMAIN history[Len(history)].detailed_analysis) =>
        history[Len(history)].detailed_analysis.quality_metrics.analysis_completeness
            = 25 * (NonEmptyDictStages
                    + (IF Len(Get(analysis_results, "red_flags", <<>>)) > 0 THEN 1 ELSE 0))

\* C13 amended: analysis_completeness is 25 times the number of stages that
\* stored a result in the run, where the structure, formula and pattern
\* stages count when their dict is non-empty and the red-flag stage counts
\* whenever its list was stored, empty or not; a run stores all four, so the
\* value is 100.
C13_Completeness ==
    (pc = "idle" /\ Len(history) > 0
        /\ "quality_metrics" \in DOMAIN history[Len(history)].detailed_analysis) =>
        LET c == history[Len(history)].detailed_analysis.quality_metrics.analysis_completeness
        IN  /\ c = 25 * (NonEmptyDictStages
                         + (IF "red_flags" \in DOMAIN analysis_results THEN 1 ELSE 0))
            /\ c = 100

\* C13 witness: a run that raised no red flag returned completeness 100.
C13_Witness ==
    /\ pc = "idle"
    /\ Len(history) > 0
    /\ history[Len(history)].red_flags = <<>>
    /\ "quality_metrics" \in DOMAIN history[Len(history)].detailed_analysis
    /\ history[Len(history)].detailed_analysis.quality_metrics.analysis_completeness = 100

\* The structure analysis has run and stored its result.
StructureDone == pc = "formulas" /\ "structure" \in DOMAIN analysis_results

\* The sum the claim states, from the workbook's own facts.
StatedStructureSum(w) ==
    LET n  == Len(w.sheetnames)
        mb == FileSizeCentiMB(w.size_bytes)
    IN  70
        + (IF n >= 1 /\ n <= 10 THEN 15 ELSE IF n >= 11 /\ n <= 20 THEN 5
           ELSE IF n >= 21 /\ n <= 30 THEN 0 ELSE IF n > 30 THEN -20 ELSE 0)
        + (IF w.defined_names >= 1 /\ w.defined_names <= 10 THEN 15
           ELSE IF w.defined_names > 10 THEN 5 ELSE 0)
        - (IF \E i \in DOMAIN w.sheet_state : w.sheet_state[i] = "hidden" THEN 5 ELSE 0)
        - (IF \E i \in DOMAIN w.sheet_state : w.sheet_state[i] = "veryHidden" THEN 10 ELSE 0)
        + (IF mb < 500 THEN 5 ELSE IF mb > 5000 THEN -15 ELSE 0)

StructureComputationFaults ==
    StructureOuterFaults
    \cup { "structure.named_ranges", "structure.visibility", "structure.scoring" }

\* C15: whenever a computation inside the structure analysis fails, reading the
\* sheet names or the file size included, the stored structure_score is 50 and
\* the failure is recorded in analysis_errors.
C15_FailureScoresFifty ==
    (StructureDone /\ workbook.faults \cap StructureComputationFaults # {}) =>
        /\ analysis_results.structure.structure_score = 50
        /\ Len(analysis_results.structure.analysis_errors) > 0

\* The score the claim states for a sheet analysis sa.
StatedConsistencySum(sa) ==
    LET used   == Max2(1, sa.used_cells)
        merged == sa.merged_cells
        total  == sa.total_cells
        fc     == sa.formula_cells
    IN  70
        + (IF sa.has_tables THEN 20 ELSE 0)
        + (IF sa.has_data_validation THEN 15 ELSE 0)
        + (IF sa.headers_detected > 0 THEN 10 ELSE 0)
        - (IF RatioGT(<< merged, used >>, 2, 10) THEN 30
           ELSE IF RatioGT(<< merged, used >>, 1, 10) THEN 15
           ELSE IF merged > 0 THEN 5 ELSE 0)
        - (IF total > 100
           THEN (IF RatioLT(<< used, total >>, 5, 100) THEN 20
                 ELSE IF RatioLT(<< used, total >>, 1, 10) THEN 10 ELSE 0)
           ELSE 0)
        + (IF used > 10
           THEN (IF RatioGT(<< fc, used >>, 8, 10) THEN -10
                 ELSE IF ~RatioLT(<< fc, used >>, 1, 10)
                         /\ ~RatioGT(<< fc, used >>, 5, 10) THEN 5 ELSE 0)
           ELSE 0)

\* C16: the per-sheet consistency score is the stated sum (70, table,
\* validation and header bonuses, merged-cell and density penalties, formula
\* term) clamped to 0..100, and it always lies between 10 and 100.
C16_ConsistencyScoreFormula ==
    pc = "scored" =>
        /\ loc.data_consistency_score = Max2(0, Min2(100, StatedConsistencySum(loc)))
        /\ loc.data_consistency_score >= 10 /\ loc.data_consistency_score <= 100

\* A sheet with every penalty and no bonus is scored 70 - 30 - 20 - 10, with
\* the merged ratio above 0.2.
C16_Witness ==
    /\ pc = "scored"
    /\ 5 * loc.merged_cells > loc.used_cells
    /\ loc.data_consistency_score = 10

\* The class the stated precedence gives a formula of the workbook.
StatedClass(text) ==
    IF AnyIn(complex_formula_patterns, Upper(text)) THEN "complex"
    ELSE IF AnyIn(moderate_formula_patterns \o simple_formula_patterns, Upper(text)) THEN "simple"
    ELSE "complex"

\* C17: every formula of the workbook is counted by the precedence complex >
\* moderate > simple > unknown on its upper-cased text: complex when it
\* contains a complex name, else simple when it contains a moderate or simple
\* name, else complex.
C17_PrecedenceOnFormulas ==
    ("formulas" \in DOMAIN analysis_results
        /\ "complex_formulas" \in DOMAIN analysis_results["formulas"]
        /\ "formulas.classify" \notin workbook.faults) =>
        LET fa == analysis_results["formulas"]
        IN  /\ fa.complex_formulas =
                   SumSeq([k \in 1..Len(CollectedRuns) |->
                             IF StatedClass(CollectedRuns[k].text) = "complex"
                             THEN CollectedRuns[k].n ELSE 0])
            /\ fa.simple_formulas =
                   SumSeq([k \in 1..Len(CollectedRuns) |->
                             IF StatedClass(CollectedRuns[k].text) = "simple"
                             THEN CollectedRuns[k].n ELSE 0])

\* The difficulty the claim states for a formula analysis fa.
StatedDifficulty(fa) ==
    IF fa.total_formulas = 0 THEN 20
    ELSE LET r    == << fa.complex_formulas, fa.total_formulas >>
             base == IF RatioGT(r, 6, 10) THEN 85
                     ELSE IF RatioGT(r, 4, 10) THEN 70
                     ELSE IF RatioGT(r, 2, 10) THEN 50
                     ELSE 25
             more == IF fa.total_formulas > 1000 THEN 10
                     ELSE IF fa.total_formulas > 100 THEN 5 ELSE 0
         IN  Min2(100, base + more)

\* C18: the difficulty score is 20 without formulas, else 85, 70, 50 or 25 by
\* the complexity ratio (above 0.6, 0.4, 0.2, or not), plus 10 above 1000
\* formulas or 5 above 100, capped at 100; 190 formulas that are all complex
\* have ratio 1 and score at least 85.
C18_DifficultyScore ==
    pc = "difficulty_scored" =>
        /\ loc.automation_difficulty_score = StatedDifficulty(loc)
        /\ (loc.total_formulas = 190 /\ loc.complex_formulas = 190) =>
               /\ loc.formula_complexity_ratio[1] = loc.formula_complexity_ratio[2]
               /\ loc.automation_difficulty_score >= 85

\* The 190 all-complex formulas are scored 85 + 5.
C18_Witness ==
    /\ pc = "difficulty_scored"
    /\ loc.total_formulas = 190 /\ loc.complex_formulas = 190
    /\ loc.automation_difficulty_score = 90

\* The pattern analysis ran to its end and stored its result.
PatternsDone ==
    /\ "patterns" \in DOMAIN analysis_results
    /\ "detected_patterns" \in DOMAIN analysis_results["patterns"]

\* Some base name is shared by two sheets; minLen is the shortest base name
\* that counts.
SharedBaseName(names, minLen) ==
    \E i, j \in 1..Len(names) :
        /\ i < j
        /\ BaseName(names[i]) = BaseName(names[j])
        /\ Len(BaseName(names[i])) >= minLen

\* The score and the outputs the stated rules give, with base names of at
\* least minLen characters.
PatternRulesGive(pa, names, minLen) ==
    LET timeF  == Cardinality({ i \in 1..Len(names) : IsTimeBased(names[i]) }) >= 2
        repF   == Len(names) >= 3 /\ SharedBaseName(names, minLen)
        consF  == Len(pa.data_entry_sheets) >= 2
                  /\ Len(pa.reporting_sheets) + Len(pa.summary_sheets) >= 1
        templF == Len(pa.template_sheets) >= 1
                  /\ Len(names) - Len(pa.template_sheets) >= 2
        pipeF  == Len(pa.data_entry_sheets) >= 1 /\ Len(pa.calculation_sheets) >= 1
                  /\ Len(pa.reporting_sheets) >= 1
        fired  == Cardinality({ k \in 1..5 : << timeF, repF, consF, templF, pipeF >>[k] })
        multiF == Len(pa.detected_patterns) >= 3
    IN  /\ pa.pattern_score = (IF timeF THEN 30 ELSE 0) + (IF repF THEN 25 ELSE 0)
                               + (IF consF THEN 20 ELSE 0) + (IF templF THEN 15 ELSE 0)
                               + (IF pipeF THEN 25 ELSE 0) + (IF multiF THEN 10 ELSE 0)
        /\ pa.time_based_patterns = timeF
        /\ pa.repeated_structures = repF
        /\ pa.consolidation_patterns = consF
        /\ Len(pa.detected_patterns) = fired
        /\ Cardinality(Elems(pa.detected_patterns)) = fired
        /\ InSeq("Multi-pattern business process", pa.business_process_indicators)
              <=> fired >= 3

\* C19 as stated: any base name shared by two sheets fires the repeated-
\* structure rule.
C19_AsStated ==
    PatternsDone => PatternRulesGive(analysis_results["patterns"], workbook.sheetnames, 0)

\* C19: pattern_score is the sum of the bonuses of the rules that fired, each
\* once (30 time-based, 25 repeated structure for a shared base name of at
\* least two characters, 20 consolidation, 15 template with variations, 25
\* end-to-end, 10 for three or more descriptions), and the multi-pattern
\* bonus goes exactly with three or more detected patterns.
C19_PatternScoreSum ==
    PatternsDone => PatternRulesGive(analysis_results["patterns"], workbook.sheetnames, 2)

\* Four rules and the multi-pattern bonus fire in the second run on one
\* workbook: 30 + 25 + 20 + 25 + 10.
C19_Witness ==
    /\ PatternsDone
    /\ Len(history) = 1
    /\ analysis_results["patterns"].repeated_structures
    /\ Len(analysis_results["patterns"].detected_patterns) = 4
    /\ analysis_results["patterns"].pattern_score = 110

\* Every recommendation text, in the order of the rules that emit it.
ToolCatalog ==
    << "[ok] Python + pandas + openpyxl - Ideal for data processing, calculations, and report generation",
       "[ok] Python + xlwings - Excel integration with Python logic, maintains Excel interface",
       "[warn] Python + pandas - Possible with formula logic replication effort",
       "[ok] Microsoft Power Automate - Excellent for workflow automation and Office 365 integration",
       "[ok] Power BI + Power Query - Perfect for reporting automation and data transformation",
       "[warn] Power Platform - Possible with data restructuring",
       "[ok] Enhanced VBA/Excel Macros - Build upon existing logic, add automation triggers",
       "[ok] Excel + VBA + Python integration - Hybrid approach leveraging both platforms",
       "[ok] Excel VBA - Native Excel automation for formula-heavy processes",
       "[warn] RPA Tools (UiPath, Automation Anywhere) - For processes that can't be restructured",
       "[warn] Desktop automation - When existing file structure must be preserved",
       "[ok] Google Sheets + Apps Script - Cloud-based collaborative automation",
       "[ok] Office 365 + SharePoint + Power Automate - Enterprise cloud automation suite",
       "[ok] Scheduled automation scripts - Perfect for periodic reporting",
       "[ok] ETL tools (SSIS, Alteryx) - Specialized for data consolidation workflows",
       "[ok] No-code platforms (Zapier, Microsoft Flow) - Quick implementation option" >>

\* Position of a recommendation in the catalog, 0 when it is not in it.
CatalogIndex(rec) ==
    IF InSeq(rec, ToolCatalog) THEN CHOOSE k \in 1..Len(ToolCatalog) : ToolCatalog[k] = rec
    ELSE 0

\* The recommender was called and returned from its try block.
RecommenderReturned ==
    /\ pc = "detail"
    /\ workbook.faults \cap { "recommend.raise", "recommend.critical" } = {}

\* The emissions of the rules for the locals the recommender was called with.
EmittedNow == RuleEmissions(analysis_results, AnalysisSummary(loc))

\* C20: the returned tool list has at most 8 entries and no duplicates, and
\* when the recommender returns from its rules the list is a prefix of the
\* rule emissions, which follow the rule order Python, Power Platform,
\* VBA/Excel, RPA, cloud, pattern-specific, no-code.
C20_ToolsPrefix ==
    pc = "detail" =>
        LET tools == loc["recommended_tools"]
        IN  /\ Len(tools) <= 8
            /\ Cardinality(Elems(tools)) = Len(tools)
            /\ RecommenderReturned =>
                  /\ Len(tools) <= Len(EmittedNow)
                  /\ tools = SubSeq(EmittedNow, 1, Len(tools))
                  /\ \A i \in 1..Len(EmittedNow) : CatalogIndex(EmittedNow[i]) > 0
                  /\ \A i, j \in 1..Len(EmittedNow) :
                        i < j => CatalogIndex(EmittedNow[i]) < CatalogIndex(EmittedNow[j])

\* The rules emit more than 8 recommendations and the first 8 are returned.
C20_Witness ==
    /\ RecommenderReturned
    /\ Len(EmittedNow) > 8
    /\ Len(loc["recommended_tools"]) = 8

\* The returned tool list, as a set.
ToolsNow == Elems(loc["recommended_tools"])

\* The summary the recommender was called with.
SummaryNow == AnalysisSummary(loc)

PythonPair == { ToolCatalog[1], ToolCatalog[2] }
VbaPair    == { ToolCatalog[7], ToolCatalog[8] }
RpaPair    == { ToolCatalog[10], ToolCatalog[11] }

PowerEntries == { ToolCatalog[4], ToolCatalog[5], ToolCatalog[6] }

\* C28: recommended_tools is never empty; when the recommender returns from
\* its rules some rule has fired (the RPA rule below an overall score of 50, a
\* Power Platform entry from 50 on), and otherwise the list is the failure
\* entry.
C28_ToolsNeverEmpty ==
    pc = "detail" =>
        /\ Len(loc["recommended_tools"]) >= 1
        /\ RecommenderReturned =>
              /\ Len(EmittedNow) >= 1
              /\ SummaryNow.overall_score < 5000 => RpaPair \subseteq ToolsNow
              /\ SummaryNow.overall_score >= 5000 => PowerEntries \cap ToolsNow # {}
        /\ ~RecommenderReturned => Len(loc["recommended_tools"]) = 1

\* Only the RPA rule fires: the list is exactly its two entries.
C28_Witness ==
    /\ RecommenderReturned
    /\ ToolsNow = RpaPair
    /\ Len(loc["recommended_tools"]) = 2

\* The time-based and consolidation flags the pattern stage stored in this run.
TimeBasedNow == Get(Get(analysis_results, "patterns", EmptyDict), "time_based_patterns", FALSE)
ConsolidationNow ==
    Get(Get(analysis_results, "patterns", EmptyDict), "consolidation_patterns", FALSE)

\* C29: when the recommender returns from its rules, a detected time-based
\* pattern puts the scheduled-scripts entry in the returned list and a
\* detected consolidation pattern puts the ETL entry in it.
C29_PatternToolsSurviveCap ==
    RecommenderReturned =>
        /\ TimeBasedNow => ToolCatalog[14] \in ToolsNow
        /\ ConsolidationNow => ToolCatalog[15] \in ToolsNow

\* The flag the macro detection of identify_red_flags appends when it fires.
MacroDetectionFired ==
    InSeq("VBA macros detected - requires specialized automation approach",
          loc["red_flags"])

\* C30: the recommender's has_macros is true exactly when the macro detection
\* of the red-flag stage fired in this run.
C30_MacrosOnlyFromDetection ==
    RecommenderReturned =>
        (MentionsMacros(SummaryNow.red_flags) <=> MacroDetectionFired)

\* Some non-empty cell of the analysed sheet exposes validation metadata.
ExposesValidation ==
    LET b == workbook.bodies[1]
    IN  b.dv_attr /\ b.values + SumSeq([k \in 1..Len(b.formulas) |-> b.formulas[k].n]) > 0

\* C24: has_data_validation is true exactly when some non-empty cell exposes
\* validation metadata; without such a cell the consistency score carries no
\* validation bonus, formula cells or not.
C24_ValidationFromMetadata ==
    pc = "sheet_done" =>
        /\ loc.has_data_validation <=> ExposesValidation
        /\ ~ExposesValidation =>
              loc.data_consistency_score =
                 CalculateConsistencyScore([loc EXCEPT !.has_data_validation = FALSE])

\* s[:len(p)] == p
StartsWith(s, p) == Len(s) >= Len(p) /\ SubSeq(s, 1, Len(p)) = p

\* Number of flags that begin with the text p.
FlagsStarting(flags, p) == Cardinality({ i \in 1..Len(flags) : StartsWith(flags[i], p) })

\* One two-level pair: the severe flag alone above the stricter threshold,
\* the mild flag alone above the looser one only, neither otherwise.
PairEmits(flags, severeText, mildText, severe, mild) ==
    /\ FlagsStarting(flags, severeText) = (IF severe THEN 1 ELSE 0)
    /\ FlagsStarting(flags, mildText) = (IF ~severe /\ mild THEN 1 ELSE 0)

\* The red-flag stage has stored the list of identify_red_flags.
RedFlagsDone == pc = "opportunities" /\ workbook.faults = {}

\* Sum of the consistency scores of the first 10 sheets, and their number.
ConsistencySum ==
    SumSeq([i \in 1..Min2(Len(workbook.sheetnames), 10) |->
              analyze_sheet_data(workbook, i).data_consistency_score])

\* C25: for each two-level threshold pair (file size 100/50 MB, sheets 30/20,
\* complex ratio 0.7/0.5, formulas 2000/1000, merged cells 20/10, average
\* consistency 40/60) exactly the severe flag is emitted beyond the stricter
\* threshold, exactly the mild one beyond the looser only, none otherwise.
C25_TwoLevelFlags ==
    RedFlagsDone =>
        LET flags  == analysis_results["red_flags"]
            st     == analysis_results["structure"]
            fa     == analysis_results["formulas"]
            n10    == Min2(Len(workbook.sheetnames), 10)
            merged == SumSeq([i \in 1..Len(workbook.sheetnames) |-> workbook.bodies[i].merged])
        IN  /\ PairEmits(flags, "Very large file size", "Large file size",
                         st.file_size_mb > 10000, st.file_size_mb > 5000)
            /\ PairEmits(flags, "Excessive number of sheets", "High number of sheets",
                         st.total_sheets > 30, st.total_sheets > 20)
            /\ PairEmits(flags, "Very high complex formula ratio", "High complex formula ratio",
                         10 * fa.complex_formulas > 7 * Max2(1, fa.total_formulas),
                         10 * fa.complex_formulas > 5 * Max2(1, fa.total_formulas))
            /\ PairEmits(flags, "Very high formula count", "High formula count",
                         fa.total_formulas > 2000, fa.total_formulas > 1000)
            /\ PairEmits(flags, "High total merged cells", "Moderate merged cell usage",
                         merged > 20, merged > 10)
            /\ PairEmits(flags, "Low data consistency", "Moderate data consistency",
                         ConsistencySum < 40 * n10, ConsistencySum < 60 * n10)

\* A one-sheet workbook beyond the stricter threshold of file size, complex
\* ratio, formula count and merged cells gets these four severe flags and
\* none of their mild ones.
C25_Witness ==
    /\ RedFlagsDone
    /\ \A p \in { "Very large file size", "Very high complex formula ratio",
                   "Very high formula count", "High total merged cells" } :
          FlagsStarting(analysis_results["red_flags"], p) = 1
    /\ \A p \in { "Large file size", "High complex formula ratio", "High formula count",
                   "Moderate merged cell usage" } :
          FlagsStarting(analysis_results["red_flags"], p) = 0

\* The keys of self.analysis_results that generate_comprehensive_report
\* assigns.
StageKeys == { "structure", "formulas", "patterns", "red_flags" }

\* The steps of one run in program order: <<position, next position>>.
StageOrder ==
    { << "idle", "formulas" >>, << "formulas", "patterns" >>,
      << "patterns", "red_flags" >>, << "red_flags", "opportunities" >>,
      << "opportunities", "score" >>, << "score", "tier" >>,
      << "tier", "recommend" >>, << "recommend", "detail" >>,
      << "detail", "return" >>, << "return", "idle" >> }

\* The keys whose stage lies before position p of a run.
WrittenBefore(p) ==
    CASE p = "formulas"  -> { "structure" }
      [] p = "patterns"  -> { "structure", "formulas" }
      [] p = "red_flags" -> { "structure", "formulas", "patterns" }
      [] OTHER           -> StageKeys

\* Every key written so far in the current run was written once, and the
\* keys written are those of the stages passed.
KeysWrittenOnce ==
    /\ \A k \in DOMAIN run_log.writes : run_log.writes[k] = 1
    /\ DOMAIN run_log.writes =
         IF pc = "idle" /\ run_log = NoRun THEN {} ELSE WrittenBefore(pc)

\* C22: within one run the stages execute in the fixed order structure,
\* formulas, patterns, red flags, opportunities, score, tier, tools; each of
\* the keys structure, formulas, patterns, red_flags is written exactly once
\* per run, by its stage or the stage's failure handler; and no stage reads
\* a key before the same run has written it.
C22_StagesInOrder ==
    [][ /\ << pc, pc' >> \in StageOrder
        /\ KeysWrittenOnce'
        /\ run_log'.early_reads = {} ]_vars

\* C22 witness: a second run on the same checker has passed all its stages,
\* the pattern stage through its failure handler, and the red-flag,
\* opportunity and recommender reads have happened.
C22_Witness ==
    /\ pc = "return"
    /\ Len(history) = 1
    /\ "patterns.raise" \in workbook.faults
    /\ workbook.faults \cap { "red_flags.raise", "opportunities.raise", "recommend.raise" } = {}
    /\ DOMAIN run_log.writes = StageKeys

\* C23: in one run analyze_sheet_data is called exactly once for each
\* analysed sheet: at every position of a run no sheet has been scanned a
\* second time, and once the formula stage has passed without failing every
\* analysed sheet has been scanned.
C23_SheetsScannedOnce ==
    /\ \A i \in DOMAIN run_log.scans : run_log.scans[i] <= 1
    /\ ( /\ pc \notin { "idle", "formulas" }
         /\ workbook.faults \cap { "formulas.raise", "formulas.critical" } = {} )
       => DOMAIN run_log.scans = 1..Min2(Len(workbook.sheetnames), max_sheets_to_analyze)

\* C27: a call of load_excel_file that returns False leaves self.workbook
\* and self.file_path as they were before the call.
C27_FailedLoadKeepsChecker ==
    [][ FailedLoad => workbook' = workbook ]_vars

\* C26: the assessment a reused checker returns for its workbook is the one
\* a newly constructed checker returns for it, whatever was assessed on the
\* checker before, and no run reads a key of self.analysis_results that it
\* has not written itself.
C26_HistoryIndependent ==
    [][ /\ StageReturn =>
             history'[Len(history')] = FreshAssessment(workbook, now)
        /\ run_log'.early_reads = {} ]_vars

\* C26 witness: the checker has returned two assessments with different
\* scores and red flags, the second after a successful load of another
\* file, and the second run has read all four keys.
C26_Witness ==
    /\ pc = "idle"
    /\ Len(history) = 2
    /\ loaded
    /\ workbook \in ReuseFiles
    /\ history[1].overall_score # history[2].overall_score
    /\ history[1].red_flags # history[2].red_flags
    /\ history[2] = FreshAssessment(workbook, 1)
    /\ DOMAIN run_log.writes = StageKeys

====
